---- MODULE Spec2Model ----
(***************************************************************************)
(* FIITChain: the single-signature coin (fiitcoin), the block chain built  *)
(* on it (blockchain) and the multi-signature validator (multisig).        *)
(*                                                                         *)
(* Cryptography is symbolic.  A digest is a record; SHA-256 is modelled as *)
(* an injective function of its preimage: a block digest carries the       *)
(* sequence of digests that IncompleteBlock::raw concatenates, a fiitcoin  *)
(* transaction digest is the number of the transaction's raw bytes in the  *)
(* finite table of raw transactions of the model, a multisig transaction   *)
(* digest carries its raw transaction.  A signature is the pair            *)
(* (signing key, signed message); a verifying key accepts exactly the      *)
(* signatures made by its own signing key over the verified message.       *)
(* A u32 is a pair <<hi, lo>> of 16-bit halves, so that 32-bit wraparound  *)
(* is exact.                                                               *)
(***************************************************************************)
EXTENDS Integers, Sequences, FiniteSets, TLC

VARIABLES
    chain,            \* Blockchain.chain: ring buffer, oldest first
    mempool,          \* Blockchain.mempool: set of pending Tx (keyed by hash)
    height,           \* history: height of every retained node (parallel to chain)
    appended,         \* history: hash and height of every node ever appended
    overflow_checks,  \* build profile: TRUE = arithmetic overflow panics (debug)
    panicked,         \* the process aborted on a panic
    last,             \* history: the last call and what it returned
    h_pool,           \* fiitcoin Handler.pool of a handler used on its own
    h_last,           \* history: the last call on that handler
    h_applied,        \* history: every transaction that handler has accepted
    ms_pool,          \* multisig Handler.pool of a handler used on its own
    ms_last,          \* history: the last call on that handler
    sim,              \* consensus simulation: nodes, followees, rounds run
    twin,             \* the same simulation run without its Dead node
    sweep             \* consensus parameter sweep: trials, channel, collector

vars == <<chain, mempool, height, appended, overflow_checks, panicked, last,
          h_pool, h_last, h_applied, ms_pool, ms_last, sim, twin, sweep>>

-----------------------------------------------------------------------------
(* Bounds of the model *)

MaxBlocks == 2      \* blocks accepted on top of genesis
MaxMempool == 2     \* pending transactions
MaxForkBlocks == 4  \* blocks accepted on top of genesis when branches are explored
MaxLongBlocks == 14 \* blocks accepted on top of genesis when the buffer fills up
MaxSideBlocks == 1  \* of these, forks that do not extend the highest branch
MaxBatch == 3       \* candidates in one batch of the fee tests
MaxRoundBatch == 2  \* candidates in one batch when a handler is called again and again
GossipNodes == 3    \* nodes of a small population of the consensus simulation
RingNodes == 12     \* trusted nodes of a ring population
Trials == 2         \* parameter tuples of the sweep of the consensus simulation

-----------------------------------------------------------------------------
(* Program constants *)

CUT_OFF_AGE == 12
COINBASE == 625
Rounds == 10    \* the fewest rounds the simulation is run with
Retries == 3    \* the retries of a trial of the sweep that did not pass

-----------------------------------------------------------------------------
(* u32 arithmetic *)

Half == 65536

U32(n) == <<n \div Half, n % Half>>

U32Max == <<Half - 1, Half - 1>>

\* a + b overflows 32 bits
AddOverflows(a, b) == a[1] + b[1] + ((a[2] + b[2]) \div Half) >= Half

\* a + b modulo 2^32
WrappingAdd(a, b) ==
    <<(a[1] + b[1] + ((a[2] + b[2]) \div Half)) % Half, (a[2] + b[2]) % Half>>

U32Geq(a, b) == a[1] > b[1] \/ (a[1] = b[1] /\ a[2] >= b[2])

\* The sum of a sequence of u32 as the code computes it: [value, panic].
RECURSIVE SumFrom(_, _, _, _)
SumFrom(values, i, acc, checks) ==
    IF i > Len(values) THEN [value |-> acc, panic |-> FALSE]
    ELSE IF checks /\ AddOverflows(acc, values[i])
         THEN [value |-> acc, panic |-> TRUE]
         ELSE SumFrom(values, i + 1, WrappingAdd(acc, values[i]), checks)

\* Mathematical (unbounded) sums, as <<carry, hi, lo>>.
WideAdd(w, v) ==
    LET lo == w[3] + v[2]
        hi == w[2] + v[1] + (lo \div Half)
    IN <<w[1] + (hi \div Half), hi % Half, lo % Half>>

RECURSIVE WideSumFrom(_, _, _)
WideSumFrom(values, i, acc) ==
    IF i > Len(values) THEN acc
    ELSE WideSumFrom(values, i + 1, WideAdd(acc, values[i]))

WideSum(values) == WideSumFrom(values, 1, <<0, 0, 0>>)

WideLeq(a, b) ==
    \/ a[1] < b[1]
    \/ a[1] = b[1] /\ a[2] < b[2]
    \/ a[1] = b[1] /\ a[2] = b[2] /\ a[3] <= b[3]

-----------------------------------------------------------------------------
(* Digests, keys and signatures *)

Keys == {"bob", "alice", "carol", "mallory"}

ZeroDigest == [k |-> "zero", n |-> 0, pre |-> <<>>]

TxDigest(i) == [k |-> "tx", n |-> i, pre |-> <<>>]

\* SHA-256 of a block preimage (a concatenation of digests)
Sha256Block(raw) == [k |-> "blk", n |-> 0, pre |-> raw]

Sign(sk, msg) == [by |-> sk, msg |-> msg]

Verify(vk, msg, signature) == signature.by = vk /\ signature.msg = msg

-----------------------------------------------------------------------------
(* fiitcoin::tx *)

Output(value, vk) == [value |-> value, verifying_key |-> vk]

\* the bytes one input is signed over: its (hash, idx) followed by all outputs
raw_tx_from_one_input(inputs, outputs, idx) ==
    [output_tx_hash |-> inputs[idx].output_tx_hash,
     output_idx |-> inputs[idx].output_idx,
     outputs |-> outputs]

NoSignature == Sign("", [output_tx_hash |-> ZeroDigest, output_idx |-> 0, outputs |-> <<>>])

\* a signature over bytes that are not the transaction ("random data")
RandomSignature(sk) ==
    Sign(sk, [output_tx_hash |-> ZeroDigest, output_idx |-> 1, outputs |-> <<>>])

\* the bytes of a finalized transaction: inputs with signatures, then outputs
raw_tx(inputs, outputs) == <<inputs, outputs>>

\* UnsignedTx::add_input for every (hash, idx) of refs
UnsignedInputs(refs) ==
    [i \in 1..Len(refs) |->
        [output_tx_hash |-> refs[i][1], output_idx |-> refs[i][2],
         signature |-> NoSignature]]

\* the signing loop of UnsignedTx::sing_inputs_and_finalize
SignedInputs(refs, outputs, sender_sk) ==
    [i \in 1..Len(refs) |->
        [output_tx_hash |-> refs[i][1], output_idx |-> refs[i][2],
         signature |->
            Sign(sender_sk, raw_tx_from_one_input(UnsignedInputs(refs), outputs, i))]]

\* Tx::force_signature_on_input on every input (the hash is not recomputed
\* by the code; here the transaction is numbered with the forced signature)
ForcedInputs(refs, signature) ==
    [i \in 1..Len(refs) |->
        [output_tx_hash |-> refs[i][1], output_idx |-> refs[i][2],
         signature |-> signature]]

(* The raw transactions of the model.  Raw transaction i has digest        *)
(* TxDigest(i); a transaction refers to earlier ones by that digest.       *)
OutsCoinbase(address) == <<Output(U32(COINBASE), address)>>
OutsA == <<Output(U32(400), "alice"), Output(U32(225), "bob")>>
OutsB == <<Output(U32(625), "alice")>>
OutsC == <<Output(U32(400), "bob")>>
OutsBadSig == <<Output(U32(100), "alice")>>
OutsWrap == <<Output(U32Max, "alice"), Output(U32(626), "bob")>>
OutsCb == <<Output(U32(625), "bob")>>
OutsOver == <<Output(U32(626), "alice")>>
OutsDup == <<Output(U32(1250), "alice")>>
OutsZero == <<Output(U32(0), "alice")>>
OutsMint == <<Output(U32Max, "alice"), Output(U32(626), "alice")>>
OutsBig == <<Output(U32(1000), "bob")>>
OutsFeeRoot == [i \in 1..3 |-> Output(U32(100), "bob")]
OutsFee50 == <<Output(U32(10), "alice"), Output(U32(40), "bob")>>
OutsFee10 == <<Output(U32(10), "carol"), Output(U32(80), "bob")>>
OutsFeePair == <<Output(U32(140), "alice")>>
OutsFeeY == <<Output(U32(65), "alice")>>
OutsFeeZ == <<Output(U32(65), "carol")>>
OutsFeeChild == <<Output(U32(20), "alice")>>
OutsFeeGreater == <<Output(U32(101), "alice")>>
OutsFeeMid == <<Output(U32(160), "alice")>>
OutsFeeGrand == <<Output(U32(15), "carol")>>

RefGenesis == <<TxDigest(1), 0>>

TxPreimages ==
    << raw_tx(<<>>, OutsCoinbase("bob")),                                       \* 1
       raw_tx(<<>>, OutsCoinbase("alice")),                                     \* 2
       raw_tx(SignedInputs(<<RefGenesis>>, OutsA, "bob"), OutsA),               \* 3
       raw_tx(SignedInputs(<<RefGenesis>>, OutsB, "bob"), OutsB),               \* 4
       raw_tx(SignedInputs(<< <<TxDigest(3), 0>> >>, OutsC, "alice"), OutsC),   \* 5
       raw_tx(SignedInputs(<<RefGenesis>>, OutsBadSig, "alice"), OutsBadSig),   \* 6
       raw_tx(SignedInputs(<<RefGenesis>>, OutsWrap, "bob"), OutsWrap),         \* 7
       raw_tx(SignedInputs(<< <<TxDigest(2), 0>> >>, OutsCb, "alice"), OutsCb), \* 8
       raw_tx(SignedInputs(<<RefGenesis>>, OutsOver, "bob"), OutsOver),         \* 9
       raw_tx(SignedInputs(<<RefGenesis, RefGenesis>>, OutsDup, "bob"), OutsDup), \* 10
       raw_tx(ForcedInputs(<<RefGenesis>>, RandomSignature("bob")), OutsC),     \* 11
       raw_tx(SignedInputs(<<RefGenesis>>, OutsZero, "bob"), OutsZero),         \* 12
       raw_tx(<<>>, OutsMint),                                                  \* 13
       raw_tx(SignedInputs(<< <<TxDigest(13), 0>>, <<TxDigest(13), 1>> >>, OutsBig, "alice"),
              OutsBig),                                                         \* 14
       raw_tx(SignedInputs(<< <<ZeroDigest, 0>> >>, OutsFeeRoot, "bob"), OutsFeeRoot), \* 15
       raw_tx(SignedInputs(<< <<TxDigest(15), 0>> >>, OutsFee50, "bob"), OutsFee50),   \* 16
       raw_tx(SignedInputs(<< <<TxDigest(15), 0>> >>, OutsFee10, "bob"), OutsFee10),   \* 17
       raw_tx(SignedInputs(<< <<TxDigest(15), 1>>, <<TxDigest(15), 2>> >>, OutsFeePair, "bob"),
              OutsFeePair),                                                     \* 18
       raw_tx(SignedInputs(<< <<TxDigest(15), 1>> >>, OutsFeeY, "bob"), OutsFeeY),     \* 19
       raw_tx(SignedInputs(<< <<TxDigest(15), 2>> >>, OutsFeeZ, "bob"), OutsFeeZ),     \* 20
       raw_tx(SignedInputs(<< <<TxDigest(17), 1>> >>, OutsFeeChild, "bob"), OutsFeeChild), \* 21
       raw_tx(SignedInputs(<< <<TxDigest(15), 69>> >>, OutsFeeY, "bob"), OutsFeeY),    \* 22
       raw_tx(SignedInputs(<< <<TxDigest(15), 2>> >>, OutsFeeGreater, "bob"),
              OutsFeeGreater),                                                  \* 23
       raw_tx(SignedInputs(<< <<TxDigest(15), 0>>, <<TxDigest(15), 1>> >>, OutsFeeMid, "bob"),
              OutsFeeMid),                                                      \* 24
       raw_tx(SignedInputs(<< <<TxDigest(21), 0>> >>, OutsFeeGrand, "alice"),
              OutsFeeGrand) >>                                                  \* 25

\* SHA-256 of the bytes of a transaction
Sha256Tx(raw) == TxDigest(CHOOSE i \in DOMAIN TxPreimages : TxPreimages[i] = raw)

\* UnsignedTx::finalize
finalize(inputs, outputs) ==
    [hash |-> Sha256Tx(raw_tx(inputs, outputs)), inputs |-> inputs, outputs |-> outputs]

sing_inputs_and_finalize(refs, outputs, sender_sk) ==
    finalize(SignedInputs(refs, outputs, sender_sk), outputs)

\* Tx::coinbase
coinbase(value, address) == finalize(<<>>, <<Output(U32(value), address)>>)

GenesisTx == coinbase(COINBASE, "bob")
AliceCoinbaseTx == coinbase(COINBASE, "alice")
TxA == sing_inputs_and_finalize(<<<<GenesisTx.hash, 0>>>>, OutsA, "bob")
TxB == sing_inputs_and_finalize(<<<<GenesisTx.hash, 0>>>>, OutsB, "bob")
TxC == sing_inputs_and_finalize(<<<<TxA.hash, 0>>>>, OutsC, "alice")
TxBadSig == sing_inputs_and_finalize(<<<<GenesisTx.hash, 0>>>>, OutsBadSig, "alice")
TxWrap == sing_inputs_and_finalize(<<<<GenesisTx.hash, 0>>>>, OutsWrap, "bob")
TxCb == sing_inputs_and_finalize(<<<<AliceCoinbaseTx.hash, 0>>>>, OutsCb, "alice")
TxOver == sing_inputs_and_finalize(<<<<GenesisTx.hash, 0>>>>, OutsOver, "bob")
TxDup ==
    sing_inputs_and_finalize(<<<<GenesisTx.hash, 0>>, <<GenesisTx.hash, 0>>>>, OutsDup, "bob")
TxRandomSig ==
    finalize(ForcedInputs(<<<<GenesisTx.hash, 0>>>>, RandomSignature("bob")), OutsC)
TxZero == sing_inputs_and_finalize(<<<<GenesisTx.hash, 0>>>>, OutsZero, "bob")
TxMint == finalize(<<>>, OutsMint)
TxBig == sing_inputs_and_finalize(<<<<TxMint.hash, 0>>, <<TxMint.hash, 1>>>>, OutsBig, "alice")

\* the transactions of the fee tests: a root of three outputs of 100 for
\* bob, two spenders of its output 0 (fees 50 and 10), a spender of outputs
\* 1 and 2 (fee 60), one spender each of output 1 and of output 2 (fee 35
\* each), a spender of TxFee10's change (fee 60), a spender of an output
\* the root does not have, one that pays out more than it spends, a
\* spender of outputs 0 and 1 (fee 40), and a spender of TxFeeChild's
\* output (fee 5)
TxFeeRoot == sing_inputs_and_finalize(<<<<ZeroDigest, 0>>>>, OutsFeeRoot, "bob")
TxFee50 == sing_inputs_and_finalize(<<<<TxFeeRoot.hash, 0>>>>, OutsFee50, "bob")
TxFee10 == sing_inputs_and_finalize(<<<<TxFeeRoot.hash, 0>>>>, OutsFee10, "bob")
TxFeePair ==
    sing_inputs_and_finalize(<<<<TxFeeRoot.hash, 1>>, <<TxFeeRoot.hash, 2>>>>, OutsFeePair, "bob")
TxFeeY == sing_inputs_and_finalize(<<<<TxFeeRoot.hash, 1>>>>, OutsFeeY, "bob")
TxFeeZ == sing_inputs_and_finalize(<<<<TxFeeRoot.hash, 2>>>>, OutsFeeZ, "bob")
TxFeeChild == sing_inputs_and_finalize(<<<<TxFee10.hash, 1>>>>, OutsFeeChild, "bob")
TxFeeNoInput == sing_inputs_and_finalize(<<<<TxFeeRoot.hash, 69>>>>, OutsFeeY, "bob")
TxFeeGreater == sing_inputs_and_finalize(<<<<TxFeeRoot.hash, 2>>>>, OutsFeeGreater, "bob")
TxFeeMid ==
    sing_inputs_and_finalize(<<<<TxFeeRoot.hash, 0>>, <<TxFeeRoot.hash, 1>>>>, OutsFeeMid, "bob")
TxFeeGrand == sing_inputs_and_finalize(<<<<TxFeeChild.hash, 0>>>>, OutsFeeGrand, "alice")

\* the transactions clients submit and blocks carry
ClientTxs == {TxA, TxB, TxC, TxBadSig, TxWrap, TxCb}

-----------------------------------------------------------------------------
(* fiitcoin::utxo *)

UTXO(tx_hash, output_idx) == [tx_hash |-> tx_hash, output_idx |-> output_idx]

input_to_utxo(input) == UTXO(input.output_tx_hash, input.output_idx)

EmptyPool == [u \in {} |-> Output(U32(0), "")]

add_utxo(p, utxo, output) ==
    [u \in DOMAIN p \cup {utxo} |-> IF u = utxo THEN output ELSE p[u]]

remove_utxo(p, utxo) == [u \in DOMAIN p \ {utxo} |-> p[u]]

contains(p, utxo) == utxo \in DOMAIN p

-----------------------------------------------------------------------------
(* fiitcoin::handler: the validator.  The result is "true", "false", or    *)
(* "panic" when an addition overflows in a build with overflow checks.     *)

RECURSIVE is_tx_valid_loop(_, _, _, _, _, _)
is_tx_valid_loop(p, tx, checks, i, in_sum, used_outputs) ==
    IF i > Len(tx.inputs)
    THEN LET out == SumFrom([j \in 1..Len(tx.outputs) |-> tx.outputs[j].value],
                            1, U32(0), checks)
         IN IF out.panic THEN "panic"
            ELSE IF out.value # U32(0) /\ U32Geq(in_sum, out.value)
                 THEN "true" ELSE "false"
    ELSE LET input == tx.inputs[i]
             utxo == input_to_utxo(input)
         IN IF utxo \in used_outputs THEN "false"
            ELSE IF ~contains(p, utxo) THEN "false"
            ELSE IF input.signature = NoSignature THEN "false"
            ELSE IF ~Verify(p[utxo].verifying_key,
                            raw_tx_from_one_input(tx.inputs, tx.outputs, i),
                            input.signature)
                 THEN "false"
            ELSE IF checks /\ AddOverflows(in_sum, p[utxo].value) THEN "panic"
            ELSE is_tx_valid_loop(p, tx, checks, i + 1,
                                  WrappingAdd(in_sum, p[utxo].value),
                                  used_outputs \cup {utxo})

is_tx_valid(p, tx, checks) == is_tx_valid_loop(p, tx, checks, 1, U32(0), {})

is_input_in_pool(p, input) == contains(p, input_to_utxo(input))

RECURSIVE RemoveInputs(_, _, _)
RemoveInputs(p, tx, i) ==
    IF i > Len(tx.inputs) THEN p
    ELSE RemoveInputs(remove_utxo(p, input_to_utxo(tx.inputs[i])), tx, i + 1)

RECURSIVE AddOutputs(_, _, _)
AddOutputs(p, tx, i) ==
    IF i > Len(tx.outputs) THEN p
    ELSE AddOutputs(add_utxo(p, UTXO(tx.hash, i - 1), tx.outputs[i]), tx, i + 1)

\* Handler::apply_tx: remove every input's UTXO, add one UTXO per output
\* apply_tx that leaves the spent outputs in the pool
apply_tx_keeping_inputs(p, tx) == AddOutputs(p, tx, 1)

apply_tx(p, tx) == AddOutputs(RemoveInputs(p, tx, 1), tx, 1)

\* one pass of handle_independent over txs; [pool, handled, dependent, panic]
RECURSIVE handle_independent_loop(_, _, _, _, _, _, _)
handle_independent_loop(p, txs, tx_set, checks, i, handled, dependent) ==
    IF i > Len(txs)
    THEN [pool |-> p, handled |-> handled, dependent |-> dependent, panic |-> FALSE]
    ELSE LET tx == txs[i] IN
         IF \A j \in 1..Len(tx.inputs) : is_input_in_pool(p, tx.inputs[j])
         THEN LET v == is_tx_valid(p, tx, checks) IN
              IF v = "panic"
              THEN [pool |-> p, handled |-> handled, dependent |-> dependent,
                    panic |-> TRUE]
              ELSE IF v = "true"
              THEN handle_independent_loop(apply_tx(p, tx), txs, tx_set, checks,
                                           i + 1, Append(handled, tx), dependent)
              ELSE handle_independent_loop(p, txs, tx_set, checks, i + 1,
                                           handled, dependent)
         ELSE IF \E j \in 1..Len(tx.inputs) : tx.inputs[j].output_tx_hash \in tx_set
         THEN handle_independent_loop(p, txs, tx_set, checks, i + 1,
                                      handled, Append(dependent, tx))
         ELSE handle_independent_loop(p, txs, tx_set, checks, i + 1,
                                      handled, dependent)

\* handle_independent that does not know the hashes of its batch
handle_independent_without_set(p, txs, checks) ==
    handle_independent_loop(p, txs, {}, checks, 1, <<>>, <<>>)

\* handle_independent that defers every dependent candidate twice
handle_independent_deferring_twice(p, txs, checks) ==
    LET r == handle_independent_loop(p, txs, {txs[i].hash : i \in 1..Len(txs)},
                                     checks, 1, <<>>, <<>>)
    IN [r EXCEPT !.dependent = r.dependent \o r.dependent]

handle_independent(p, txs, checks) ==
    handle_independent_loop(p, txs, {txs[i].hash : i \in 1..Len(txs)}, checks,
                            1, <<>>, <<>>)

\* Handler::handle: waves of handle_independent; [pool, handled, panic]
RECURSIVE handle_loop(_, _, _, _)
handle_loop(p, to_handle, checks, handled) ==
    LET r == handle_independent(p, to_handle, checks) IN
    IF r.panic THEN [pool |-> r.pool, handled |-> handled \o r.handled, panic |-> TRUE]
    ELSE IF r.dependent = <<>>
    THEN [pool |-> r.pool, handled |-> handled \o r.handled, panic |-> FALSE]
    ELSE handle_loop(r.pool, r.dependent, checks, handled \o r.handled)

\* Handler::handle: the list every turn of its loop hands to
\* handle_independent, the batch first
RECURSIVE handle_waves(_, _, _)
handle_waves(p, to_handle, checks) ==
    LET r == handle_independent(p, to_handle, checks) IN
    IF r.panic \/ r.dependent = <<>> THEN <<to_handle>>
    ELSE <<to_handle>> \o handle_waves(r.pool, r.dependent, checks)

\* handle that stops after the first wave
handle_one_wave(p, possible_txs, checks) ==
    LET r == handle_independent(p, possible_txs, checks) IN
    [pool |-> r.pool, handled |-> r.handled, panic |-> r.panic]

handle(p, possible_txs, checks) == handle_loop(p, possible_txs, checks, <<>>)

-----------------------------------------------------------------------------
(* blockchain::block *)

\* IncompleteBlock::raw: the parent hash unless it is all zeros, then the
\* hash of every transaction; the coinbase is not part of it
raw(prev, txs) ==
    (IF prev = ZeroDigest THEN <<>> ELSE <<prev>>) \o [i \in 1..Len(txs) |-> txs[i].hash]

\* IncompleteBlock::new(prev, address), add_tx for every tx of txs, finalize
finalize_block(prev, address, txs) ==
    [hash |-> Sha256Block(raw(prev, txs)), prev |-> prev,
     coinbase |-> coinbase(COINBASE, address), txs |-> txs]

NoBlock == [hash |-> ZeroDigest, prev |-> ZeroDigest, coinbase |-> GenesisTx, txs |-> <<>>]

-----------------------------------------------------------------------------
(* blockchain::tx_pool *)

tx_pool_add(mp, tx) == {t \in mp : t.hash # tx.hash} \cup {tx}

\* a remove that leaves the transaction pending
tx_pool_remove_nothing(mp, hash) == mp

tx_pool_remove(mp, hash) == {t \in mp : t.hash # hash}

\* TxPool::txs: the pending transactions in the map's iteration order,
\* which is any order
tx_pool_txs(mp) ==
    {s \in [1..Cardinality(mp) -> mp] : \A i, j \in 1..Cardinality(mp) : s[i] = s[j] => i = j}

-----------------------------------------------------------------------------
(* blockchain::blockchain *)

\* a push that overwrites the newest element of a full buffer
push_over_newest(buffer, element) ==
    IF Len(buffer) = CUT_OFF_AGE
    THEN Append(SubSeq(buffer, 1, CUT_OFF_AGE - 1), element)
    ELSE Append(buffer, element)

\* ConstGenericRingBuffer::push: a full buffer drops its oldest element
push(buffer, element) ==
    IF Len(buffer) = CUT_OFF_AGE THEN Append(Tail(buffer), element)
    ELSE Append(buffer, element)

\* at_block_hash that falls back to the newest node when no node has the hash
at_block_hash_or_back(ch, hash) ==
    IF \E i \in 1..Len(ch) : ch[i].block.hash = hash
    THEN CHOOSE i \in 1..Len(ch) :
            /\ ch[i].block.hash = hash
            /\ \A j \in 1..(i - 1) : ch[j].block.hash # hash
    ELSE Len(ch)

\* Blockchain::at_block_hash: index of the first retained node with that
\* hash, oldest first; 0 for None
at_block_hash(ch, hash) ==
    IF \E i \in 1..Len(ch) : ch[i].block.hash = hash
    THEN CHOOSE i \in 1..Len(ch) :
            /\ ch[i].block.hash = hash
            /\ \A j \in 1..(i - 1) : ch[j].block.hash # hash
    ELSE 0

\* the greatest height of a retained node
MaxHeight(h) == CHOOSE m \in {h[i] : i \in 1..Len(h)} : \A i \in 1..Len(h) : h[i] <= m

\* the oldest of the retained nodes of greatest height
oldest_highest(ch) ==
    CHOOSE i \in 1..Len(ch) :
        /\ height[i] = MaxHeight(height)
        /\ \A j \in 1..(i - 1) : height[j] < height[i]

\* the newest node, unless an older node has its height: then the oldest such
oldest_at_back_height(ch) ==
    CHOOSE i \in 1..Len(ch) :
        /\ height[i] = height[Len(ch)]
        /\ \A j \in 1..(i - 1) : height[j] # height[i]

\* index of the node block_at_max_height and utxo_pool_at_max_height read:
\* the back of the buffer
back(ch) == Len(ch)

\* the block of the front of the buffer
block_at_front(ch) == ch[1].block

block_at_max_height(ch) == ch[back(ch)].block

utxo_pool_at_max_height(ch) == ch[back(ch)].pool

RECURSIVE RemoveAll(_, _, _)
RemoveAll(mp, txs, i) ==
    IF i > Len(txs) THEN mp ELSE RemoveAll(tx_pool_remove(mp, txs[i].hash), txs, i + 1)

\* add_block without the comparison of the handled count with the block's
add_block_any_count(ch, mp, block, checks) ==
    LET parent == at_block_hash(ch, block.prev) IN
    IF parent = 0
    THEN [ok |-> FALSE, panic |-> FALSE, chain |-> ch, mempool |-> mp]
    ELSE LET r == handle(ch[parent].pool, block.txs, checks) IN
         IF r.panic
         THEN [ok |-> FALSE, panic |-> TRUE, chain |-> ch, mempool |-> mp]
         ELSE [ok |-> TRUE, panic |-> FALSE,
               chain |-> push(ch, [block |-> block, pool |-> r.pool]),
               mempool |-> RemoveAll(mp, block.txs, 1)]

\* add_block whose handler works on the parent's stored pool, not on a clone
add_block_on_stored_pool(ch, mp, block, checks) ==
    LET parent == at_block_hash(ch, block.prev) IN
    IF parent = 0
    THEN [ok |-> FALSE, panic |-> FALSE, chain |-> ch, mempool |-> mp]
    ELSE LET r == handle(ch[parent].pool, block.txs, checks)
             used == [ch EXCEPT ![parent].pool = r.pool]
         IN IF r.panic
            THEN [ok |-> FALSE, panic |-> TRUE, chain |-> used, mempool |-> mp]
            ELSE IF Len(r.handled) # Len(block.txs)
            THEN [ok |-> FALSE, panic |-> FALSE, chain |-> used, mempool |-> mp]
            ELSE [ok |-> TRUE, panic |-> FALSE,
                  chain |-> push(used, [block |-> block, pool |-> r.pool]),
                  mempool |-> RemoveAll(mp, block.txs, 1)]

\* add_block that takes the transactions of a block out of the mempool before
\* it knows that the block is accepted
add_block_dropping_pending(ch, mp, block, checks) ==
    LET parent == at_block_hash(ch, block.prev) IN
    IF parent = 0
    THEN [ok |-> FALSE, panic |-> FALSE, chain |-> ch, mempool |-> mp]
    ELSE LET r == handle(ch[parent].pool, block.txs, checks) IN
         IF r.panic
         THEN [ok |-> FALSE, panic |-> TRUE, chain |-> ch, mempool |-> mp]
         ELSE IF Len(r.handled) # Len(block.txs)
         THEN [ok |-> FALSE, panic |-> FALSE, chain |-> ch,
               mempool |-> RemoveAll(mp, block.txs, 1)]
         ELSE [ok |-> TRUE, panic |-> FALSE,
               chain |-> push(ch, [block |-> block, pool |-> r.pool]),
               mempool |-> RemoveAll(mp, block.txs, 1)]

\* Blockchain::add_block; [ok, panic, chain, mempool]
add_block(ch, mp, block, checks) ==
    LET parent == at_block_hash(ch, block.prev) IN
    IF parent = 0
    THEN [ok |-> FALSE, panic |-> FALSE, chain |-> ch, mempool |-> mp]
    ELSE LET r == handle(ch[parent].pool, block.txs, checks) IN
         IF r.panic
         THEN [ok |-> FALSE, panic |-> TRUE, chain |-> ch, mempool |-> mp]
         ELSE IF Len(r.handled) # Len(block.txs)
         THEN [ok |-> FALSE, panic |-> FALSE, chain |-> ch, mempool |-> mp]
         ELSE [ok |-> TRUE, panic |-> FALSE,
               chain |-> push(ch, [block |-> block, pool |-> r.pool]),
               mempool |-> RemoveAll(mp, block.txs, 1)]

add_tx(mp, tx) == tx_pool_add(mp, tx)

-----------------------------------------------------------------------------
(* block handler *)

hash_at_max_height(ch) == block_at_max_height(ch).hash

\* a builder that puts every pending transaction into the block
build_block_all_txs(ch, parent, address, txs, checks) ==
    [block |-> finalize_block(ch[parent].block.hash, address, txs),
     panic |-> handle(ch[parent].pool, txs, checks).panic]

\* the block BlockHandler builds on the node at index parent from the
\* pending transactions taken in the order txs; [block, panic]
build_block(ch, parent, address, txs, checks) ==
    LET r == handle(ch[parent].pool, txs, checks) IN
    [block |-> finalize_block(ch[parent].block.hash, address, r.handled),
     panic |-> r.panic]

\* BlockHandler::create_block without the final add_block
create_block(ch, address, txs, checks) == build_block(ch, back(ch), address, txs, checks)

\* BlockHandler::create_fork for a retained parent_hash
create_fork(ch, parent_hash, address, txs, checks) ==
    build_block(ch, at_block_hash(ch, parent_hash), address, txs, checks)

-----------------------------------------------------------------------------
(* The chain driven by clients and miners *)

\* tests/common: setup_handler(bob): the genesis block and its pool
Genesis == finalize_block(ZeroDigest, "bob", <<>>)

GenesisPool == add_utxo(EmptyPool, UTXO(Genesis.coinbase.hash, 0), Genesis.coinbase.outputs[1])

\* a digest that is the hash of no block ever handed to the chain
UnknownDigest == Sha256Block(<<ZeroDigest, ZeroDigest>>)

\* the addresses blocks are mined for
Miners == {"alice"}

\* the transaction lists of the blocks clients build
ClientTxLists ==
    { <<>>, <<TxA>>, <<TxB>>, <<TxA, TxC>>, <<TxC, TxA>>, <<TxC>>, <<TxA, TxB>>,
      <<TxA, TxA>>, <<TxBadSig>>, <<TxWrap>>, <<TxCb>>, <<TxOver>> }

RetainedHashes(ch) == {ch[i].block.hash : i \in 1..Len(ch)}

\* the blocks a client may hand to process_block
ClientBlocks(ch) ==
    {finalize_block(prev, address, txs) :
        prev \in RetainedHashes(ch) \cup {ZeroDigest, UnknownDigest},
        address \in Miners,
        txs \in ClientTxLists}

Call(op, ok, block) == [op |-> op, ok |-> ok, block |-> block]

\* the handlers used on their own are not used
HandlerIdle == h_pool = EmptyPool /\ h_last = <<>> /\ h_applied = {}

MsIdle == ms_pool = <<>> /\ ms_last = <<>>

SimIdle == sim = <<>> /\ twin = <<>>

SweepIdle == sweep = <<>>

InitChain ==
    /\ chain = <<[block |-> Genesis, pool |-> GenesisPool]>>
    /\ mempool = {}
    /\ height = <<1>>
    /\ appended = <<[hash |-> Genesis.hash, height |-> 1]>>
    /\ overflow_checks \in BOOLEAN
    /\ panicked = FALSE
    /\ last = Call("new", TRUE, Genesis)

Init == InitChain /\ HandlerIdle /\ MsIdle /\ SimIdle /\ SweepIdle

\* the effect of add_block(block), called as op, on the state
AddBlock(op, block) ==
    LET r == add_block(chain, mempool, block, overflow_checks) IN
    /\ chain' = r.chain
    /\ mempool' = r.mempool
    /\ panicked' = r.panic
    /\ height' = IF r.ok
                 THEN push(height, height[at_block_hash(chain, block.prev)] + 1)
                 ELSE height
    /\ appended' = IF r.ok
                   THEN Append(appended,
                               [hash |-> block.hash,
                                height |-> height[at_block_hash(chain, block.prev)] + 1])
                   ELSE appended
    /\ last' = Call(op, r.ok, block)

\* BlockHandler::process_tx
ProcessTx(tx) ==
    /\ Cardinality(add_tx(mempool, tx)) <= MaxMempool
    /\ mempool' = add_tx(mempool, tx)
    /\ last' = Call("process_tx", TRUE, NoBlock)
    /\ UNCHANGED <<chain, height, appended, overflow_checks, panicked, h_pool, h_last, h_applied, ms_pool, ms_last, sim, twin, sweep>>

\* BlockHandler::process_block on a block built by a client
ProcessBlock(block) ==
    /\ AddBlock("process_block", block)
    /\ UNCHANGED <<overflow_checks, h_pool, h_last, h_applied, ms_pool, ms_last, sim, twin, sweep>>

\* BlockHandler::create_block, the block then handed to add_block
CreateBlock(address, txs) ==
    /\ LET c == create_block(chain, address, txs, overflow_checks) IN
       IF c.panic
       THEN /\ panicked' = TRUE
            /\ last' = Call("create_block", FALSE, NoBlock)
            /\ UNCHANGED <<chain, mempool, height, appended>>
       ELSE AddBlock("create_block", c.block)
    /\ UNCHANGED <<overflow_checks, h_pool, h_last, h_applied, ms_pool, ms_last, sim, twin, sweep>>

\* BlockHandler::create_fork; a block it returns is handed to process_block
CreateFork(parent_hash, address, txs) ==
    /\ IF at_block_hash(chain, parent_hash) = 0
       THEN /\ last' = Call("create_fork", FALSE, NoBlock)
            /\ UNCHANGED <<chain, mempool, height, appended, panicked>>
       ELSE LET c == create_fork(chain, parent_hash, address, txs, overflow_checks) IN
            IF c.panic
            THEN /\ panicked' = TRUE
                 /\ last' = Call("create_fork", FALSE, NoBlock)
                 /\ UNCHANGED <<chain, mempool, height, appended>>
            ELSE AddBlock("create_fork", c.block)
    /\ UNCHANGED <<overflow_checks, h_pool, h_last, h_applied, ms_pool, ms_last, sim, twin, sweep>>

(* A call is made while the process runs and at most n blocks were accepted.*)
(* A call that returns false changes neither chain nor mempool: the calls   *)
(* that can follow it are the calls that can follow the state before it,    *)
(* and are explored from there.                                             *)
Open(n) == ~panicked /\ last.ok /\ Len(chain) <= n

Next ==
    \/ \E tx \in ClientTxs : Open(MaxBlocks) /\ ProcessTx(tx)
    \/ \E block \in ClientBlocks(chain) : Open(MaxBlocks) /\ ProcessBlock(block)
    \/ \E address \in Miners, txs \in tx_pool_txs(mempool) :
          Open(MaxBlocks) /\ CreateBlock(address, txs)
    \/ \E parent_hash \in RetainedHashes(chain) \cup {UnknownDigest}, address \in Miners,
          txs \in tx_pool_txs(mempool) :
          Open(MaxBlocks) /\ CreateFork(parent_hash, address, txs)

Spec == Init /\ [][Next]_vars

(* The same handler driven by empty blocks and one pending transaction, so  *)
(* that more blocks and more branches fit.                                  *)
ForkTxs == {TxA}

ForkBlocks(ch) ==
    {finalize_block(prev, address, <<>>) :
        prev \in RetainedHashes(ch) \cup {UnknownDigest}, address \in Miners}

NextFork ==
    \/ \E tx \in ForkTxs : Open(MaxForkBlocks) /\ ProcessTx(tx)
    \/ \E block \in ForkBlocks(chain) : Open(MaxForkBlocks) /\ ProcessBlock(block)
    \/ \E address \in Miners, txs \in tx_pool_txs(mempool) :
          Open(MaxForkBlocks) /\ CreateBlock(address, txs)
    \/ \E parent_hash \in RetainedHashes(chain) \cup {UnknownDigest}, address \in Miners,
          txs \in tx_pool_txs(mempool) :
          Open(MaxForkBlocks) /\ CreateFork(parent_hash, address, txs)

SpecFork == Init /\ [][NextFork]_vars

(* The same handler driven with no pending transaction until the ring       *)
(* buffer is full and drops nodes: blocks are mined on the tip, and a few   *)
(* are built on another parent, also on the hash of a node that is no       *)
(* longer retained.                                                         *)
AppendedHashes == {appended[i].hash : i \in 1..Len(appended)}

\* heights of the first n appended nodes
HeightsUpTo(a, n) == [j \in 1..n |-> a[j].height]

\* the appended nodes that did not extend the highest branch of their time
SideBlocks(a) == {i \in 2..Len(a) : a[i].height # MaxHeight(HeightsUpTo(a, i - 1)) + 1}

\* the hashes of the nodes the buffer has dropped
EvictedHashes == {appended[i].hash : i \in 1..(Len(appended) - Len(chain))}

\* the blocks a client builds on a dropped or unknown parent
LongBlocks ==
    {finalize_block(prev, address, <<>>) :
        prev \in EvictedHashes \cup {UnknownDigest}, address \in Miners}

OpenLong == ~panicked /\ last.ok /\ Len(appended) <= MaxLongBlocks

\* the call leaves at most MaxSideBlocks side blocks
FewSideBlocks == Cardinality(SideBlocks(appended')) <= MaxSideBlocks

NextLong ==
    \/ \E block \in LongBlocks : OpenLong /\ ProcessBlock(block)
    \/ \E address \in Miners, txs \in tx_pool_txs(mempool) :
          OpenLong /\ CreateBlock(address, txs)
    \/ \E parent_hash \in (AppendedHashes \cup {UnknownDigest}) \ {hash_at_max_height(chain)},
          address \in Miners, txs \in tx_pool_txs(mempool) :
          OpenLong /\ CreateFork(parent_hash, address, txs) /\ FewSideBlocks

SpecLong == Init /\ [][NextLong]_vars

-----------------------------------------------------------------------------
(* fiitcoin::handler::Handler used on its own, on a pool its caller built  *)

\* the pool of the outputs of tx: UTXOPool::new, add_utxo for every output
RECURSIVE PoolOf(_, _)
PoolOf(tx, i) ==
    IF i > Len(tx.outputs) THEN EmptyPool
    ELSE add_utxo(PoolOf(tx, i + 1), UTXO(tx.hash, i - 1), tx.outputs[i])

MergePools(p, q) == [u \in DOMAIN p \cup DOMAIN q |-> IF u \in DOMAIN p THEN p[u] ELSE q[u]]

HandlerPools ==
    {PoolOf(GenesisTx, 1), PoolOf(TxMint, 1),
     MergePools(PoolOf(GenesisTx, 1), PoolOf(TxMint, 1))}

HandlerTxs ==
    {TxA, TxB, TxC, TxBadSig, TxWrap, TxOver, TxDup, TxRandomSig, TxZero, TxBig}

HandlerTxLists ==
    {<<tx>> : tx \in HandlerTxs}
        \cup {<<TxA, TxC>>, <<TxC, TxA>>, <<TxA, TxB>>, <<TxB, TxA>>, <<TxBig, TxA>>}

HCall(op, txs, result, handled) ==
    [op |-> op, txs |-> txs, result |-> result, handled |-> handled]

InitHandler ==
    /\ InitChain
    /\ MsIdle
    /\ SimIdle
    /\ SweepIdle
    /\ h_pool \in HandlerPools
    /\ h_last = HCall("new", <<>>, "true", <<>>)
    /\ h_applied = {}

\* Handler::is_tx_valid(tx)
IsTxValid(tx) ==
    /\ ~panicked
    /\ LET v == is_tx_valid(h_pool, tx, overflow_checks) IN
       /\ h_last' = HCall("is_tx_valid", <<tx>>, v, <<>>)
       /\ panicked' = (v = "panic")
    /\ UNCHANGED <<chain, mempool, height, appended, overflow_checks, last, h_pool, h_applied, ms_pool, ms_last, sim, twin, sweep>>

\* Handler::handle(txs)
Handle(txs) ==
    /\ ~panicked
    /\ LET r == handle(h_pool, txs, overflow_checks) IN
       /\ h_pool' = r.pool
       /\ h_last' = HCall("handle", txs, IF r.panic THEN "panic" ELSE "returned", r.handled)
       /\ h_applied' = h_applied \cup {r.handled[i] : i \in 1..Len(r.handled)}
       /\ panicked' = r.panic
    /\ UNCHANGED <<chain, mempool, height, appended, overflow_checks, last, ms_pool, ms_last, sim, twin, sweep>>

NextHandler ==
    \/ \E tx \in HandlerTxs : IsTxValid(tx)
    \/ \E txs \in HandlerTxLists : Handle(txs)

SpecHandler == InitHandler /\ [][NextHandler]_vars

-----------------------------------------------------------------------------
(* multisig::tx and multisig::handler.  The pool operations of             *)
(* multisig::utxo are those of fiitcoin::utxo.                             *)

\* Output::multisig
ms_Output(value, verifiers, threshold) ==
    [value |-> value, verifiers |-> verifiers, threshold |-> threshold]

\* raw_tx: hash and index of every input, value and verifiers of every
\* output; neither thresholds nor signatures are part of it
ms_raw_tx(inputs, outputs) ==
    <<[i \in 1..Len(inputs) |-> <<inputs[i].output_tx_hash, inputs[i].output_idx>>],
      [j \in 1..Len(outputs) |-> <<outputs[j].value, outputs[j].verifiers>>]>>

Sha256Ms(bytes) == [k |-> "mtx", n |-> 0, pre |-> bytes]

\* UnsignedTx::finalize(signers): every input carries one signature of the
\* raw transaction per signer, in the order of signers
ms_finalize(refs, outputs, signers) ==
    LET unsigned == [i \in 1..Len(refs) |->
                        [output_tx_hash |-> refs[i][1], output_idx |-> refs[i][2]]]
        msg == ms_raw_tx(unsigned, outputs)
    IN [hash |-> Sha256Ms(msg),
        inputs |-> [i \in 1..Len(refs) |->
                      [output_tx_hash |-> refs[i][1], output_idx |-> refs[i][2],
                       signatures |-> [k \in 1..Len(signers) |-> Sign(signers[k], msg)]]],
        outputs |-> outputs]

\* a count that tries the first verifier of the output only
ms_valid_sigs_first_verifier(output, msg, signatures) ==
    Cardinality({k \in 1..Len(signatures) :
                    Verify(output.verifiers[1], msg, signatures[k])})

\* is_tx_valid, lines 94-103: every signature that some verifier of the
\* output verifies adds one to valid_sigs
ms_valid_sigs(output, msg, signatures) ==
    Cardinality({k \in 1..Len(signatures) :
                    \E v \in 1..Len(output.verifiers) :
                        Verify(output.verifiers[v], msg, signatures[k])})

RECURSIVE ms_is_tx_valid_loop(_, _, _, _, _, _)
ms_is_tx_valid_loop(p, tx, checks, i, in_sum, used_outputs) ==
    IF i > Len(tx.inputs)
    THEN LET out == SumFrom([j \in 1..Len(tx.outputs) |-> tx.outputs[j].value],
                            1, U32(0), checks)
         IN IF out.panic THEN "panic"
            ELSE IF U32Geq(in_sum, out.value) THEN "true" ELSE "false"
    ELSE LET input == tx.inputs[i]
             utxo == input_to_utxo(input)
         IN IF utxo \in used_outputs THEN "false"
            ELSE IF ~contains(p, utxo) THEN "false"
            ELSE IF ms_valid_sigs(p[utxo], ms_raw_tx(tx.inputs, tx.outputs),
                                  input.signatures) < p[utxo].threshold
                 THEN "false"
            ELSE IF checks /\ AddOverflows(in_sum, p[utxo].value) THEN "panic"
            ELSE ms_is_tx_valid_loop(p, tx, checks, i + 1,
                                     WrappingAdd(in_sum, p[utxo].value),
                                     used_outputs \cup {utxo})

ms_is_tx_valid(p, tx, checks) == ms_is_tx_valid_loop(p, tx, checks, 1, U32(0), {})

ms_apply_tx(p, tx) == AddOutputs(RemoveInputs(p, tx, 1), tx, 1)

RECURSIVE ms_handle_independent_loop(_, _, _, _, _, _, _)
ms_handle_independent_loop(p, txs, tx_set, checks, i, handled, dependent) ==
    IF i > Len(txs)
    THEN [pool |-> p, handled |-> handled, dependent |-> dependent, panic |-> FALSE]
    ELSE LET tx == txs[i] IN
         IF \A j \in 1..Len(tx.inputs) : contains(p, input_to_utxo(tx.inputs[j]))
         THEN LET v == ms_is_tx_valid(p, tx, checks) IN
              IF v = "panic"
              THEN [pool |-> p, handled |-> handled, dependent |-> dependent,
                    panic |-> TRUE]
              ELSE IF v = "true"
              THEN ms_handle_independent_loop(ms_apply_tx(p, tx), txs, tx_set, checks,
                                              i + 1, Append(handled, tx), dependent)
              ELSE ms_handle_independent_loop(p, txs, tx_set, checks, i + 1,
                                              handled, dependent)
         ELSE IF \E j \in 1..Len(tx.inputs) : tx.inputs[j].output_tx_hash \in tx_set
         THEN ms_handle_independent_loop(p, txs, tx_set, checks, i + 1,
                                         handled, Append(dependent, tx))
         ELSE ms_handle_independent_loop(p, txs, tx_set, checks, i + 1,
                                         handled, dependent)

ms_handle_independent(p, txs, checks) ==
    ms_handle_independent_loop(p, txs, {txs[i].hash : i \in 1..Len(txs)}, checks,
                               1, <<>>, <<>>)

RECURSIVE ms_handle_loop(_, _, _, _)
ms_handle_loop(p, to_handle, checks, handled) ==
    LET r == ms_handle_independent(p, to_handle, checks) IN
    IF r.panic THEN [pool |-> r.pool, handled |-> handled \o r.handled, panic |-> TRUE]
    ELSE IF r.dependent = <<>>
    THEN [pool |-> r.pool, handled |-> handled \o r.handled, panic |-> FALSE]
    ELSE ms_handle_loop(r.pool, r.dependent, checks, handled \o r.handled)

\* multisig Handler::handle: the list every turn of its loop hands to
\* handle_independent
RECURSIVE ms_handle_waves(_, _, _)
ms_handle_waves(p, to_handle, checks) ==
    LET r == ms_handle_independent(p, to_handle, checks) IN
    IF r.panic \/ r.dependent = <<>> THEN <<to_handle>>
    ELSE <<to_handle>> \o ms_handle_waves(r.pool, r.dependent, checks)

ms_handle(p, possible_txs, checks) == ms_handle_loop(p, possible_txs, checks, <<>>)

-----------------------------------------------------------------------------
(* multisig::handler::Handler used on its own, on a pool its caller built  *)

\* the transaction whose outputs fill the pool: 625 locked 2-of-3 to alice,
\* bob and carol, and two outputs of alice
MsRoot ==
    ms_finalize(<<>>,
                <<ms_Output(U32(625), <<"alice", "bob", "carol">>, 2),
                  ms_Output(U32Max, <<"alice">>, 1),
                  ms_Output(U32(626), <<"alice">>, 1),
                  ms_Output(U32(625), <<"alice", "bob", "carol">>, 3),
                  ms_Output(U32(625), <<"alice", "bob", "carol">>, 1)>>,
                <<>>)

MsRootPool(idxs) == [u \in {UTXO(MsRoot.hash, i) : i \in idxs} |-> MsRoot.outputs[u.output_idx + 1]]

MsPools == {MsRootPool({0}), MsRootPool({1, 2}), MsRootPool({0, 1, 2}), MsRootPool({0, 3, 4})}

\* the 2-of-3 output paid to bob, signed by signers
MsPay(signers) ==
    ms_finalize(<< <<MsRoot.hash, 0>> >>, <<ms_Output(U32(625), <<"bob">>, 1)>>, signers)

MsOver ==
    ms_finalize(<< <<MsRoot.hash, 0>> >>, <<ms_Output(U32(626), <<"bob">>, 1)>>,
                <<"alice", "bob">>)

MsWrap ==
    ms_finalize(<< <<MsRoot.hash, 0>> >>,
                <<ms_Output(U32Max, <<"alice">>, 1), ms_Output(U32(626), <<"bob">>, 1)>>,
                <<"alice", "bob">>)

MsBig ==
    ms_finalize(<< <<MsRoot.hash, 1>>, <<MsRoot.hash, 2>> >>,
                <<ms_Output(U32(1000), <<"bob">>, 1)>>, <<"alice">>)

MsNext ==
    ms_finalize(<< <<MsPay(<<>>).hash, 0>> >>, <<ms_Output(U32(625), <<"alice">>, 1)>>,
                <<"bob">>)

MsZero ==
    ms_finalize(<< <<MsRoot.hash, 2>> >>, <<ms_Output(U32(0), <<"bob">>, 1)>>, <<"alice">>)

\* the keys of the wallet the multi-signature outputs are locked to
WalletKeys == <<"alice", "bob", "carol">>

\* new_tx_first_n_signers_only: output idx of the root paid to bob, signed
\* by the first n keys of the wallet
MsSpend(idx, n) ==
    ms_finalize(<< <<MsRoot.hash, idx>> >>, <<ms_Output(U32(625), <<"bob">>, 1)>>,
                SubSeq(WalletKeys, 1, n))

\* the root outputs locked to the wallet: 2-of-3, 3-of-3, 1-of-3
WalletOutputs == {0, 3, 4}

\* a transaction with no input and no output
MsEmpty == ms_finalize(<<>>, <<>>, <<>>)

MsTxs ==
    {MsPay(<<"alice", "bob">>), MsPay(<<"alice">>), MsPay(<<"alice", "alice">>),
     MsPay(<<"mallory", "mallory">>), MsPay(<<"carol", "alice", "bob">>), MsPay(<<>>),
     MsOver, MsWrap, MsBig, MsNext, MsZero, MsEmpty}
        \cup {MsSpend(idx, n) : idx \in WalletOutputs, n \in 0..3}

MsTxLists ==
    {<<tx>> : tx \in MsTxs}
        \cup {<<MsPay(<<"alice", "bob">>), MsNext>>, <<MsNext, MsPay(<<"bob", "carol">>)>>,
              <<MsPay(<<"alice">>), MsNext>>, <<MsZero, MsBig>>}

InitMs ==
    /\ InitChain
    /\ HandlerIdle
    /\ SimIdle
    /\ SweepIdle
    /\ ms_pool \in MsPools
    /\ ms_last = HCall("new", <<>>, "true", <<>>)

\* multisig Handler::is_tx_valid(tx)
MsIsTxValid(tx) ==
    /\ ~panicked
    /\ LET v == ms_is_tx_valid(ms_pool, tx, overflow_checks) IN
       /\ ms_last' = HCall("is_tx_valid", <<tx>>, v, <<>>)
       /\ panicked' = (v = "panic")
    /\ UNCHANGED <<chain, mempool, height, appended, overflow_checks, last, h_pool, h_last, h_applied, ms_pool, sim, twin, sweep>>

\* multisig Handler::handle(txs)
MsHandle(txs) ==
    /\ ~panicked
    /\ LET r == ms_handle(ms_pool, txs, overflow_checks) IN
       /\ ms_pool' = r.pool
       /\ ms_last' = HCall("handle", txs, IF r.panic THEN "panic" ELSE "returned", r.handled)
       /\ panicked' = r.panic
    /\ UNCHANGED <<chain, mempool, height, appended, overflow_checks, last, h_pool, h_last, h_applied, sim, twin, sweep>>

NextMs ==
    \/ \E tx \in MsTxs : MsIsTxValid(tx)
    \/ \E txs \in MsTxLists : MsHandle(txs)

SpecMs == InitMs /\ [][NextMs]_vars

-----------------------------------------------------------------------------
(* Branches of the retained chain *)

\* index of the node a retained node was accepted on; 0 for genesis
Parent(ch, i) == at_block_hash(ch, ch[i].block.prev)

\* the nodes from genesis to node i, each the parent of the next
RECURSIVE BranchOf(_, _)
BranchOf(ch, i) ==
    IF Parent(ch, i) = 0 THEN <<i>> ELSE Append(BranchOf(ch, Parent(ch, i)), i)

\* the UTXOs the inputs of a transaction reference, in order
TxSpends(tx) == [m \in 1..Len(tx.inputs) |-> input_to_utxo(tx.inputs[m])]

RECURSIVE BlockSpends(_, _)
BlockSpends(txs, k) ==
    IF k > Len(txs) THEN <<>> ELSE TxSpends(txs[k]) \o BlockSpends(txs, k + 1)

\* every UTXO consumed by the blocks of a branch, one entry per input
RECURSIVE SpendsAlong(_, _, _)
SpendsAlong(ch, branch, k) ==
    IF k > Len(branch) THEN <<>>
    ELSE BlockSpends(ch[branch[k]].block.txs, 1) \o SpendsAlong(ch, branch, k + 1)

BranchSpends(ch, i) == SpendsAlong(ch, BranchOf(ch, i), 1)

-----------------------------------------------------------------------------
(* C1: along every branch of accepted blocks, from genesis to any retained  *)
(* node, no UTXO is consumed by two inputs of accepted transactions, in the *)
(* same block or in different blocks of the branch.                         *)
C1_NoDoubleSpendOnBranch ==
    \A i \in 1..Len(chain) :
        LET s == BranchSpends(chain, i) IN
        \A a, b \in 1..Len(s) : s[a] = s[b] => a = b

\* a branch of two accepted blocks, each with a transaction that spends, and
\* the second built on the outputs of the first
C1_Witness ==
    \E i \in 1..Len(chain) :
        /\ Len(BranchOf(chain, i)) = 3
        /\ Len(BranchSpends(chain, i)) >= 2
        /\ chain[i].block.txs = <<TxC>>

-----------------------------------------------------------------------------
\* the output an input references: output output_idx of the transaction
\* whose hash is output_tx_hash
ReferencedOutput(input) ==
    TxPreimages[input.output_tx_hash.n][2][input.output_idx + 1]

InputValues(tx) == [m \in 1..Len(tx.inputs) |-> ReferencedOutput(tx.inputs[m]).value]

OutputValues(tx) == [j \in 1..Len(tx.outputs) |-> tx.outputs[j].value]

\* the mathematical sum of the outputs is at most that of the inputs
ConservesValue(tx) == WideLeq(WideSum(OutputValues(tx)), WideSum(InputValues(tx)))

(* C2: every transaction of every accepted block has a sum of output       *)
(* values that is at most the sum of the values of the UTXOs its inputs    *)
(* reference.                                                              *)
C2_NoValueCreated ==
    \A i \in 2..Len(chain) :
        \A k \in 1..Len(chain[i].block.txs) : ConservesValue(chain[i].block.txs[k])

-----------------------------------------------------------------------------
\* the step is a call that handed last'.block to add_block
AddBlockCalled ==
    /\ last'.op \in {"process_block", "create_block", "create_fork"}
    /\ last'.block # NoBlock

ZeroPrevNodes(ch) == {i \in 1..Len(ch) : ch[i].block.prev = ZeroDigest}

(* C5: add_block returns false, and changes nothing, whenever the block's   *)
(* prev is not the hash of a node retained when it is called; a block with  *)
(* an all-zeros prev is always rejected, so that at most one node of the    *)
(* chain, genesis, has an all-zeros prev.                                   *)
C5_UnknownParentRejected ==
    /\ [][AddBlockCalled /\ last'.block.prev \notin RetainedHashes(chain)
            => ~last'.ok /\ chain' = chain /\ mempool' = mempool]_vars
    /\ [][AddBlockCalled /\ last'.block.prev = ZeroDigest => ~last'.ok]_vars
    /\ [](Cardinality(ZeroPrevNodes(chain)) <= 1)

\* a second genesis was handed to a chain that has grown, and was rejected
C5_Witness ==
    /\ last.op = "process_block"
    /\ last.block.prev = ZeroDigest
    /\ ~last.ok
    /\ Len(chain) >= 2

-----------------------------------------------------------------------------
\* the signature of every input verifies under the key of the output it spends
SignaturesVerify(tx) ==
    \A m \in 1..Len(tx.inputs) :
        Verify(ReferencedOutput(tx.inputs[m]).verifying_key,
               raw_tx_from_one_input(tx.inputs, tx.outputs, m),
               tx.inputs[m].signature)

\* the UTXOs the transactions before position k of txs create
CreatedBefore(txs, k) ==
    {UTXO(txs[j].hash, o - 1) : j \in 1..(k - 1), o \in 1..3}

\* every input is in the pool or is created earlier in the list
InputsResolve(p, txs) ==
    \A k \in 1..Len(txs) : \A m \in 1..Len(txs[k].inputs) :
        LET u == input_to_utxo(txs[k].inputs[m]) IN
        contains(p, u) \/ u \in CreatedBefore(Append(txs, txs[k]), Len(txs) + 1)

NoSharedInput(txs) ==
    LET s == BlockSpends(txs, 1) IN \A a, b \in 1..Len(s) : s[a] = s[b] => a = b

FitsU32(w) == w[1] = 0

\* the value check when no sum leaves the 32 bits
ConservesWhenSumsFit(tx) ==
    FitsU32(WideSum(OutputValues(tx))) /\ FitsU32(WideSum(InputValues(tx)))
        => ConservesValue(tx) /\ WideSum(OutputValues(tx)) # WideSum(<<>>)

-----------------------------------------------------------------------------
(* C7: the post-state pool stored with every accepted block holds the UTXO  *)
(* (coinbase hash, 0) of the block, with the coinbase output of 625.        *)
C7_CoinbaseCredited ==
    \A i \in 2..Len(chain) :
        LET u == UTXO(chain[i].block.coinbase.hash, 0) IN
        /\ contains(chain[i].pool, u)
        /\ chain[i].pool[u] = Output(U32(COINBASE), chain[i].block.coinbase.outputs[1].verifying_key)

(* C7, second half: a block that spends its parent's coinbase output with   *)
(* the miner's signature is accepted.                                       *)
C7_CoinbaseSpendable ==
    [][AddBlockCalled /\ last'.block.txs = <<TxCb>>
          /\ last'.block.prev \in RetainedHashes(chain) \ {Genesis.hash}
        => last'.ok]_vars

-----------------------------------------------------------------------------
\* the step is a call of add_block that returned true
BlockAccepted == AddBlockCalled /\ last'.ok

(* C8 as stated: block_at_max_height reads a retained node whose height is  *)
(* the greatest height of the retained nodes.                               *)
C8_TipAtMaxHeight == height[back(chain)] = MaxHeight(height)

(* C8: block_at_max_height and utxo_pool_at_max_height read the most        *)
(* recently appended retained node, whatever its height: an accepted block  *)
(* becomes the tip, with the pool add_block stored with it, also when its   *)
(* height is lower than the greatest height; no other call moves the tip.   *)
C8_TipIsNewestNode ==
    /\ [][BlockAccepted
            => /\ (block_at_max_height(chain))' = last'.block
               /\ (utxo_pool_at_max_height(chain))' =
                     handle(chain[at_block_hash(chain, last'.block.prev)].pool,
                            last'.block.txs, overflow_checks).pool
               /\ (height[back(chain)])' = height[at_block_hash(chain, last'.block.prev)] + 1]_vars
    /\ [][~BlockAccepted
            => (block_at_max_height(chain))' = block_at_max_height(chain)]_vars

\* a block was accepted below the greatest height and is the tip
C8_Witness ==
    /\ last.op \in {"process_block", "create_fork"}
    /\ last.ok
    /\ block_at_max_height(chain) = last.block
    /\ height[back(chain)] < MaxHeight(height)

-----------------------------------------------------------------------------
\* the accepted block has the greatest height reached before it
AcceptedAtMaxHeight ==
    BlockAccepted /\ height[at_block_hash(chain, last'.block.prev)] + 1 = MaxHeight(height)

(* C9 as stated: when add_block accepts a block whose height equals the     *)
(* greatest height, block_at_max_height is unchanged.                       *)
C9_OldestWinsTie ==
    [][AcceptedAtMaxHeight
        => (block_at_max_height(chain))' = block_at_max_height(chain)]_vars

(* C9: when add_block accepts a block whose height equals the greatest      *)
(* height, the accepted block is the tip: of the blocks at that height the  *)
(* last accepted one is read by block_at_max_height.                        *)
C9_NewestWinsTie ==
    [][AcceptedAtMaxHeight
        => /\ (block_at_max_height(chain))' = last'.block
           /\ (back(chain))' = Len(chain')
           /\ (height[back(chain)])' = MaxHeight(height)]_vars

\* two different siblings at the greatest height, the second one is the tip
C9_Witness ==
    /\ Len(chain) >= 3
    /\ last.ok
    /\ last.op \in {"process_block", "create_fork"}
    /\ \E i \in 2..(Len(chain) - 1) :
          /\ chain[i].block.prev = last.block.prev
          /\ chain[i].block.hash # last.block.hash
          /\ height[i] = MaxHeight(height)
    /\ height[Len(chain)] = MaxHeight(height)
    /\ block_at_max_height(chain) = last.block

-----------------------------------------------------------------------------
(* C10: right after a block b is accepted, built by create_block or by      *)
(* create_fork on an older retained parent, hash_at_max_height is b's hash  *)
(* and every block create_block builds next has b's hash as prev.           *)
C10_NextBlockOnAcceptedBlock ==
    [][BlockAccepted
        => /\ (hash_at_max_height(chain))' = last'.block.hash
           /\ \A address \in Miners : \A txs \in tx_pool_txs(mempool') :
                 (create_block(chain, address, txs, overflow_checks).block.prev)'
                    = last'.block.hash]_vars

\* create_block built on a fork block that was accepted below the greatest
\* height and has a hash of its own
C10_Witness ==
    /\ Len(chain) >= 5
    /\ last.op = "create_block"
    /\ last.ok
    /\ last.block.prev = chain[Len(chain) - 1].block.hash
    /\ \A j \in 1..(Len(chain) - 2) : chain[j].block.hash # last.block.prev
    /\ height[Len(chain) - 1] < MaxHeight(SubSeq(height, 1, Len(chain) - 2))

-----------------------------------------------------------------------------
\* the values of the pool's outputs the inputs of tx reference
PoolInputValues(p, tx) ==
    [m \in 1..Len(tx.inputs) |-> p[input_to_utxo(tx.inputs[m])].value]

(* C4: is_tx_valid returns a boolean, and returns true only for a           *)
(* transaction whose mathematical sum of output values is at most the       *)
(* mathematical sum of the values of the outputs its inputs reference, also *)
(* when a sum exceeds 2^32 - 1.                                             *)
C4_NoWraparound ==
    h_last.op = "is_tx_valid" =>
        /\ h_last.result \in {"true", "false"}
        /\ h_last.result = "true" =>
              WideLeq(WideSum(OutputValues(h_last.txs[1])),
                      WideSum(PoolInputValues(h_pool, h_last.txs[1])))

-----------------------------------------------------------------------------
\* the verifiers of output that verify some signature of the input
VerifiersSatisfied(output, msg, signatures) ==
    {output.verifiers[v] : v \in {w \in 1..Len(output.verifiers) :
        \E k \in 1..Len(signatures) : Verify(output.verifiers[w], msg, signatures[k])}}

(* C3: the multisig validator accepts a transaction only if, for every      *)
(* input, at least as many distinct verifiers of the spent output as its    *)
(* threshold each verify some signature of the input.                       *)
C3_DistinctVerifiers ==
    ms_last.op = "is_tx_valid" /\ ms_last.result = "true" =>
        LET tx == ms_last.txs[1] IN
        \A m \in 1..Len(tx.inputs) :
            LET output == ms_pool[input_to_utxo(tx.inputs[m])] IN
            Cardinality(VerifiersSatisfied(output, ms_raw_tx(tx.inputs, tx.outputs),
                                           tx.inputs[m].signatures)) >= output.threshold

-----------------------------------------------------------------------------
(* C11 *)

\* the greatest height of any block accepted so far
MaxAcceptedHeight == MaxHeight(HeightsUpTo(appended, Len(appended)))

(* C11: every retained node is less than CUT_OFF_AGE levels below the       *)
(* greatest height of any block accepted so far.                            *)
C11_HeightRetention ==
    \A i \in 1..Len(chain) : MaxAcceptedHeight - height[i] < CUT_OFF_AGE

-----------------------------------------------------------------------------
(* C12 *)

Min(a, b) == IF a <= b THEN a ELSE b

\* the n most recently appended nodes, oldest first
LastAppended(n) == SubSeq(appended, Len(appended) - n + 1, Len(appended))

(* C12: the chain retains exactly the min(k, CUT_OFF_AGE) most recently     *)
(* appended nodes, k being the number of nodes appended so far; an accepted *)
(* add_block appends one node, the block it was given, keeps the others in  *)
(* their order and, when CUT_OFF_AGE nodes are retained, drops exactly the  *)
(* oldest one; no other call changes the retained nodes.                    *)
C12_CountRetention ==
    /\ [](/\ Len(chain) = Min(Len(appended), CUT_OFF_AGE)
          /\ \A i \in 1..Len(chain) :
                /\ chain[i].block.hash = LastAppended(Len(chain))[i].hash
                /\ height[i] = LastAppended(Len(chain))[i].height)
    /\ [][BlockAccepted
            => /\ Len(appended') = Len(appended) + 1
               /\ chain'[Len(chain')].block = last'.block
               /\ IF Len(chain) = CUT_OFF_AGE
                  THEN /\ Len(chain') = CUT_OFF_AGE
                       /\ \A i \in 1..(CUT_OFF_AGE - 1) : chain'[i] = chain[i + 1]
                  ELSE /\ Len(chain') = Len(chain) + 1
                       /\ \A i \in 1..Len(chain) : chain'[i] = chain[i]]_vars
    /\ [][~BlockAccepted => chain' = chain /\ appended' = appended]_vars

\* two nodes were dropped, the second by a block off the highest branch
C12_Witness ==
    /\ Len(appended) = CUT_OFF_AGE + 2
    /\ Len(chain) = CUT_OFF_AGE
    /\ last.ok
    /\ height[Len(chain)] < MaxAcceptedHeight

-----------------------------------------------------------------------------
(* C13 *)

\* n blocks were accepted, each on the block accepted before it
LinearChain(n) == Len(appended) = n + 1 /\ SideBlocks(appended) = {}

\* create_fork(parent_hash, address) returns a block and process_block
\* accepts it
ForkAccepted(parent_hash, address) ==
    /\ at_block_hash(chain, parent_hash) # 0
    /\ add_block(chain, mempool,
                 create_fork(chain, parent_hash, address, <<>>, overflow_checks).block,
                 overflow_checks).ok

(* C13, the boundary: after CUT_OFF_AGE - 1 blocks on top of genesis a fork *)
(* on genesis is built and accepted; after CUT_OFF_AGE blocks create_fork   *)
(* on the genesis hash returns None and add_block rejects every block whose *)
(* prev is the genesis hash.                                                *)
C13_Boundary ==
    /\ [](LinearChain(CUT_OFF_AGE - 1) /\ mempool = {}
            => \A address \in Miners : ForkAccepted(Genesis.hash, address))
    /\ [](LinearChain(CUT_OFF_AGE) => at_block_hash(chain, Genesis.hash) = 0)
    /\ [][LinearChain(CUT_OFF_AGE) /\ AddBlockCalled /\ last'.block.prev = Genesis.hash
            => ~last'.ok /\ chain' = chain]_vars

(* C13, the general rule: once a node has been dropped, no call accepts a   *)
(* block whose prev is the hash of that node.                               *)
C13_EvictedParentRejected ==
    [][AddBlockCalled /\ last'.block.prev \in EvictedHashes => ~last'.ok]_vars

(* C13: the cut-off boundary on a linear chain, and the general rule.       *)
C13_CutOffBoundary == C13_Boundary /\ C13_EvictedParentRejected

-----------------------------------------------------------------------------
(* C14 *)

\* the block handed to add_block is the block of a retained node
BlockAlreadyRetained == \E i \in 1..Len(chain) : chain[i].block = last'.block

(* C14: add_block of a block that an earlier add_block accepted, and that   *)
(* is still retained, returns false and leaves the chain unchanged.         *)
C14_AddBlockNotRepeatable ==
    [][AddBlockCalled /\ BlockAlreadyRetained
        => ~last'.ok /\ chain' = chain /\ mempool' = mempool]_vars

(* C14 for blocks that carry a transaction.                                 *)
C14_TxBlockNotRepeatable ==
    [][AddBlockCalled /\ BlockAlreadyRetained /\ last'.block.txs # <<>>
        => ~last'.ok /\ chain' = chain /\ mempool' = mempool]_vars

-----------------------------------------------------------------------------
(* C15 *)

\* create_block or create_fork returned a block, which was fed back
BuiltBlockFedBack ==
    /\ last'.op \in {"create_block", "create_fork"}
    /\ last'.block # NoBlock

(* C15: the block create_block returns, and a block create_fork returns,    *)
(* is accepted when it is handed to add_block with no other call in         *)
(* between, whatever the pending transactions are: it names a retained      *)
(* parent and becomes the newest node.                                      *)
C15_BuiltBlockAccepted ==
    [][BuiltBlockFedBack
        => /\ last'.ok
           /\ last'.block.prev \in RetainedHashes(chain)
           /\ (block_at_max_height(chain))' = last'.block]_vars

\* a block was built from two conflicting pending transactions: it holds
\* one of them and was accepted, the other one is still pending
C15_Witness ==
    /\ last.op \in {"create_block", "create_fork"}
    /\ last.ok
    /\ last.block.txs \in {<<TxA>>, <<TxB>>}
    /\ mempool \in {{TxA}, {TxB}}

-----------------------------------------------------------------------------
(* C16 *)

(* C16: a call of create_block that builds a block leaves the retained      *)
(* nodes, the tip and the mempool as they were: the block is a candidate,   *)
(* which only process_block commits.                                        *)
C16_CreateBlockOnlyBuilds ==
    [][last'.op = "create_block" /\ last'.block # NoBlock
        => /\ chain' = chain
           /\ (block_at_max_height(chain))' = block_at_max_height(chain)
           /\ mempool' = mempool]_vars

-----------------------------------------------------------------------------
(* C17 *)

\* the UTXOs created by the transactions of txs
CreatedIn(txs) ==
    UNION {{UTXO(txs[j].hash, o - 1) : o \in 1..Len(txs[j].outputs)} : j \in 1..Len(txs)}

\* the post-state pool of the parent add_block finds for the block
ParentPool(block) == chain[at_block_hash(chain, block.prev)].pool

(* C17 as stated: every input of every transaction of an accepted block     *)
(* references a UTXO that is in the post-state pool of the block's parent   *)
(* and is not in the block's own post-state pool.                           *)
C17_InputsFromParentPool ==
    [][BlockAccepted
        => \A k \in 1..Len(last'.block.txs) :
             \A m \in 1..Len(last'.block.txs[k].inputs) :
                LET u == input_to_utxo(last'.block.txs[k].inputs[m]) IN
                /\ contains(ParentPool(last'.block), u)
                /\ ~contains((utxo_pool_at_max_height(chain))', u)]_vars

(* C17: every input of every transaction of an accepted block references a  *)
(* UTXO that is in the post-state pool of the block's parent or is an       *)
(* output of another transaction of the same block, listed before or after  *)
(* it, and that is not in the block's own post-state pool.                  *)
C17_InputsFromParentOrBlock ==
    [][BlockAccepted
        => \A k \in 1..Len(last'.block.txs) :
             \A m \in 1..Len(last'.block.txs[k].inputs) :
                LET u == input_to_utxo(last'.block.txs[k].inputs[m]) IN
                /\ \/ contains(ParentPool(last'.block), u)
                   \/ u \in CreatedIn(last'.block.txs)
                /\ ~contains((utxo_pool_at_max_height(chain))', u)]_vars

\* an accepted block whose first transaction spends an output of its second
C17_Witness ==
    /\ last.ok
    /\ last.op \in {"process_block", "create_block", "create_fork"}
    /\ last.block.txs = <<TxC, TxA>>
    /\ ~contains(utxo_pool_at_max_height(chain), UTXO(TxA.hash, 0))
    /\ ~contains(utxo_pool_at_max_height(chain), UTXO(GenesisTx.hash, 0))

-----------------------------------------------------------------------------
(* C18 *)

\* the five conditions of a valid transaction against pool p, the sums
\* being the sums of the numbers
FiveConditions(p, tx) ==
    /\ \A m \in 1..Len(tx.inputs) : contains(p, input_to_utxo(tx.inputs[m]))
    /\ \A m, n \in 1..Len(tx.inputs) :
          input_to_utxo(tx.inputs[m]) = input_to_utxo(tx.inputs[n]) => m = n
    /\ \A m \in 1..Len(tx.inputs) :
          /\ tx.inputs[m].signature # NoSignature
          /\ Verify(p[input_to_utxo(tx.inputs[m])].verifying_key,
                    raw_tx_from_one_input(tx.inputs, tx.outputs, m),
                    tx.inputs[m].signature)
    /\ WideLeq(WideSum(OutputValues(tx)), WideSum(PoolInputValues(p, tx)))
    /\ WideSum(OutputValues(tx)) # WideSum(<<>>)

\* no sum of the transaction leaves the 32 bits
SumsFit(p, tx) ==
    /\ FitsU32(WideSum(OutputValues(tx)))
    /\ (\A m \in 1..Len(tx.inputs) : contains(p, input_to_utxo(tx.inputs[m])))
          => FitsU32(WideSum(PoolInputValues(p, tx)))

(* C18: is_tx_valid(tx) against pool P returns true exactly when the five   *)
(* conditions hold, and false otherwise; the call leaves P unchanged.       *)
C18_ValidIffFiveConditions ==
    /\ [](h_last.op = "is_tx_valid"
            => /\ h_last.result \in {"true", "false"}
               /\ h_last.result = "true" <=> FiveConditions(h_pool, h_last.txs[1]))
    /\ [][h_last'.op = "is_tx_valid" => h_pool' = h_pool]_vars

(* C18 for the transactions whose sums fit 32 bits.                         *)
C18_ValidIffWhenSumsFit ==
    /\ [](h_last.op = "is_tx_valid" /\ SumsFit(h_pool, h_last.txs[1])
            => /\ h_last.result \in {"true", "false"}
               /\ h_last.result = "true" <=> FiveConditions(h_pool, h_last.txs[1]))
    /\ [][h_last'.op = "is_tx_valid" => h_pool' = h_pool]_vars

-----------------------------------------------------------------------------
(* C19 *)

\* the output values of the transaction sum to 0
ZeroOutputSum(tx) == WideSum(OutputValues(tx)) = WideSum(<<>>)

\* the last call, h, did not accept a transaction whose outputs sum to 0
NoVacuousTx(h) ==
    /\ h.op = "is_tx_valid" /\ ZeroOutputSum(h.txs[1]) => h.result = "false"
    /\ h.op = "handle" => \A k \in 1..Len(h.handled) : ~ZeroOutputSum(h.handled[k])

(* C19: in the single-signature and in the multisig validator, is_tx_valid  *)
(* returns false for every transaction whose output values sum to 0, and    *)
(* handle applies no such transaction.                                      *)
C19_VacuousTxRejected ==
    /\ h_last # <<>> => NoVacuousTx(h_last)
    /\ ms_last # <<>> => NoVacuousTx(ms_last)

-----------------------------------------------------------------------------
(* C20 *)

\* the threshold of the root output idx
ThresholdOf(idx) == MsRoot.outputs[idx + 1].threshold

\* is_tx_valid was called with the transaction that spends the wallet
\* output idx, which is in the pool, signed by the first n wallet keys
ThresholdCase(idx, n) ==
    /\ ms_last.op = "is_tx_valid"
    /\ ms_last.txs = <<MsSpend(idx, n)>>
    /\ contains(ms_pool, UTXO(MsRoot.hash, idx))

\* handle is called with that transaction alone
ThresholdBatch(idx, n) ==
    /\ ms_last'.op = "handle"
    /\ ms_last'.txs = <<MsSpend(idx, n)>>
    /\ contains(ms_pool, UTXO(MsRoot.hash, idx))

(* C20: a transaction that spends an output locked to n verifiers with      *)
(* threshold t, is otherwise valid and is signed by the first k of the n    *)
(* signing keys, is accepted by is_tx_valid, and applied by the handle a    *)
(* block is built with, exactly when k >= t.                                *)
C20_ThresholdDecides ==
    /\ [](\A idx \in WalletOutputs, k \in 0..3 :
            ThresholdCase(idx, k) => (ms_last.result = "true" <=> k >= ThresholdOf(idx)))
    /\ [][\A idx \in WalletOutputs, k \in 0..3 :
            ThresholdBatch(idx, k)
                => /\ ms_last'.handled = <<MsSpend(idx, k)>> <=> k >= ThresholdOf(idx)
                   /\ ms_last'.handled = <<>> <=> k < ThresholdOf(idx)
                   /\ contains(ms_pool', UTXO(MsRoot.hash, idx)) <=> k < ThresholdOf(idx)]_vars

\* is_tx_valid rejected the 3-of-3 output signed by the first 2 keys
C20_Witness ==
    /\ ThresholdCase(3, 2)
    /\ ms_last.result = "false"

-----------------------------------------------------------------------------
(* fiitcoin::handler::MaxFeeHandler *)

\* `value() as u64`
ToU64(v) == v[1] * Half + v[2]

RECURSIVE SumU64(_, _)
SumU64(outputs, i) ==
    IF i > Len(outputs) THEN 0 ELSE ToU64(outputs[i].value) + SumU64(outputs, i + 1)

\* the tx_map of MaxFeeHandler::handle: the candidates, looked up by hash
TxMap(possible_txs) == {possible_txs[i] : i \in 1..Len(possible_txs)}

NoFee == [some |-> FALSE, fee |-> 0]

\* MaxFeeHandler::calc_fee: every input is costed from the pool or, failing
\* that, from the candidate of that hash; None when an input resolves
\* nowhere or the outputs exceed the inputs
RECURSIVE calc_fee_loop(_, _, _, _, _)
calc_fee_loop(p, tx, tx_map, i, input_value) ==
    IF i > Len(tx.inputs)
    THEN LET output_value == SumU64(tx.outputs, 1) IN
         IF input_value < output_value THEN NoFee
         ELSE [some |-> TRUE, fee |-> input_value - output_value]
    ELSE LET input == tx.inputs[i]
             utxo == input_to_utxo(input)
         IN IF contains(p, utxo)
            THEN calc_fee_loop(p, tx, tx_map, i + 1, input_value + ToU64(p[utxo].value))
            ELSE IF \E t \in tx_map : /\ t.hash = input.output_tx_hash
                                      /\ input.output_idx < Len(t.outputs)
            THEN LET t == CHOOSE t \in tx_map : t.hash = input.output_tx_hash IN
                 calc_fee_loop(p, tx, tx_map, i + 1,
                               input_value + ToU64(t.outputs[input.output_idx + 1].value))
            ELSE NoFee

\* calc_fee that costs inputs from the pool alone
calc_fee_pool_only(p, tx, tx_map) == calc_fee_loop(p, tx, {}, 1, 0)

calc_fee(p, tx, tx_map) == calc_fee_loop(p, tx, tx_map, 1, 0)

\* the filter_map of MaxFeeHandler::handle: the candidates that have a fee,
\* in the order of the list
RECURSIVE with_fees(_, _, _, _)
with_fees(p, possible_txs, tx_map, i) ==
    IF i > Len(possible_txs) THEN <<>>
    ELSE LET fee == calc_fee(p, possible_txs[i], tx_map)
             rest == with_fees(p, possible_txs, tx_map, i + 1)
         IN IF fee.some THEN <<[fee |-> fee.fee, tx |-> possible_txs[i]]>> \o rest
            ELSE rest

Arrangements(s) ==
    {[i \in 1..Len(s) |-> s[f[i]]] :
        f \in {g \in [1..Len(s) -> 1..Len(s)] : \A a, b \in 1..Len(s) : a # b => g[a] # g[b]}}

\* sort_unstable_by on the fee followed by reverse: every arrangement in
\* descending fee; the order of candidates of equal fee is not specified
\* the sort without the reverse
sort_by_fee_ascending(fees) ==
    {s \in Arrangements(fees) : \A i \in 1..(Len(s) - 1) : s[i].fee <= s[i + 1].fee}

sort_by_fee_descending(fees) ==
    {s \in Arrangements(fees) : \A i \in 1..(Len(s) - 1) : s[i].fee >= s[i + 1].fee}

\* the arrangements MaxFeeHandler::handle may feed to the wave loop
to_handle_orders(p, possible_txs) ==
    {[i \in 1..Len(s) |-> s[i].tx] :
        s \in sort_by_fee_descending(with_fees(p, possible_txs, TxMap(possible_txs), 1))}

\* MaxFeeHandler::handle once the arrangement is fixed: the wave loop
max_fee_handle(p, to_handle, checks) == handle_loop(p, to_handle, checks, <<>>)

(* The handlers driven with batches of the fee tests. *)
\* the pool of setup_pool, and the same pool once TxFee10 was applied
BatchPools == {PoolOf(TxFeeRoot, 1), apply_tx(PoolOf(TxFeeRoot, 1), TxFee10)}

BatchTxs ==
    {TxFee50, TxFee10, TxFeePair, TxFeeY, TxFeeZ, TxFeeChild, TxFeeNoInput, TxFeeGreater,
     TxFeeMid, TxFeeGrand}

\* every list of up to MaxBatch of them, repetitions included
BatchTxLists == UNION {[1..n -> BatchTxs] : n \in 1..MaxBatch}

\* the values of the fee tests are far below 2^32: no sum overflows, and
\* the build with overflow checks stands for both
InitBatch ==
    /\ InitChain
    /\ overflow_checks
    /\ MsIdle
    /\ SimIdle
    /\ SweepIdle
    /\ h_pool \in BatchPools
    /\ h_last = HCall("new", <<>>, "true", <<>>)
    /\ h_applied = {}

\* MaxFeeHandler::handle(txs)
MaxFeeHandle(txs) ==
    /\ ~panicked
    /\ \E to_handle \in to_handle_orders(h_pool, txs) :
          LET r == max_fee_handle(h_pool, to_handle, overflow_checks) IN
          /\ h_pool' = r.pool
          /\ h_last' = HCall("max_fee_handle", txs,
                             IF r.panic THEN "panic" ELSE "returned", r.handled)
          /\ h_applied' = h_applied \cup {r.handled[i] : i \in 1..Len(r.handled)}
          /\ panicked' = r.panic
    /\ UNCHANGED <<chain, mempool, height, appended, overflow_checks, last, ms_pool, ms_last, sim, twin, sweep>>

\* a handler is built on a pool and handles one batch
Fresh == h_last.op = "new"

NextBatch ==
    \/ \E txs \in BatchTxLists : Fresh /\ Handle(txs)
    \/ \E txs \in BatchTxLists : Fresh /\ MaxFeeHandle(txs)

SpecBatch == InitBatch /\ [][NextBatch]_vars

-----------------------------------------------------------------------------
(* C21: the subset MaxFeeHandler::handle picks *)

\* txs[i..] can be applied to p one after another, each valid at its turn
RECURSIVE Applicable(_, _, _)
Applicable(p, txs, i) ==
    \/ i > Len(txs)
    \/ /\ is_tx_valid(p, txs[i], overflow_checks) = "true"
       /\ Applicable(apply_tx(p, txs[i]), txs, i + 1)

\* the fees txs[i..] pay when applied to p in that order
RECURSIVE TotalFee(_, _, _)
TotalFee(p, txs, i) ==
    IF i > Len(txs) THEN 0
    ELSE calc_fee(p, txs[i], {}).fee + TotalFee(apply_tx(p, txs[i]), txs, i + 1)

\* every arrangement of every subset of the candidates
SubLists(txs) ==
    UNION {{s \in [1..n -> TxMap(txs)] : \A a, b \in 1..n : a # b => s[a] # s[b]} :
              n \in 0..Len(txs)}

MaxFeeReturned == h_last'.op = "max_fee_handle" /\ h_last'.result = "returned"

HandledCompatible == Applicable(h_pool, h_last'.handled, 1)

HandledMaximal ==
    \A s \in SubLists(h_last'.txs) :
        Applicable(h_pool, s, 1) =>
            TotalFee(h_pool, s, 1) <= TotalFee(h_pool, h_last'.handled, 1)

\* two candidates of the batch spend the same UTXO
Conflict(txs) ==
    \E a, b \in 1..Len(txs) :
        /\ a # b
        /\ \E i \in 1..Len(txs[a].inputs), j \in 1..Len(txs[b].inputs) :
              input_to_utxo(txs[a].inputs[i]) = input_to_utxo(txs[b].inputs[j])

\* C21 as stated: whatever the batch, the transactions MaxFeeHandler::handle
\* returns can be applied to the pool in the returned order, and no
\* compatible subset of the candidates pays a larger total fee.
C21_MaxFeeSubset == [][MaxFeeReturned => HandledCompatible /\ HandledMaximal]_vars

\* C21 amended: the returned transactions can always be applied to the
\* pool in the returned order; no compatible subset pays a larger total fee
\* when no two candidates of the batch spend the same UTXO.
C21_MaxFeeWithoutConflict ==
    [][MaxFeeReturned =>
          /\ HandledCompatible
          /\ ~Conflict(h_last'.txs) => HandledMaximal]_vars

\* the max-fee handler accepted a transaction and one that spends its
\* output, out of a batch without conflicts
C21_Witness ==
    /\ h_last.op = "max_fee_handle"
    /\ h_last.result = "returned"
    /\ ~Conflict(h_last.txs)
    /\ \E i, j \in 1..Len(h_last.handled) :
          \E k \in 1..Len(h_last.handled[j].inputs) :
              h_last.handled[j].inputs[k].output_tx_hash = h_last.handled[i].hash

-----------------------------------------------------------------------------
(* C22: two candidates of a max-fee batch that spend the same UTXO *)

SharesInput(a, b) ==
    \E i \in 1..Len(a.inputs), j \in 1..Len(b.inputs) :
        input_to_utxo(a.inputs[i]) = input_to_utxo(b.inputs[j])

FeeOf(p, tx) == calc_fee(p, tx, {}).fee

\* a and b are valid against p, spend a common UTXO, and a pays the larger fee
Rivals(p, a, b) ==
    /\ is_tx_valid(p, a, overflow_checks) = "true"
    /\ is_tx_valid(p, b, overflow_checks) = "true"
    /\ SharesInput(a, b)
    /\ FeeOf(p, a) > FeeOf(p, b)

Handled(tx) == \E i \in 1..Len(h_last'.handled) : h_last'.handled[i] = tx

LargerFeeWins(a, b) == Handled(a) /\ ~Handled(b)

\* no third candidate that pays at least as much as a spends a UTXO a spends
Unchallenged(p, txs, a, b) ==
    \A c \in TxMap(txs) \ {a, b} :
        ~(calc_fee(p, c, TxMap(txs)).some /\ SharesInput(a, c)
          /\ calc_fee(p, c, TxMap(txs)).fee >= FeeOf(p, a))

\* C22 as stated: of any two candidates of a batch that are valid against
\* the pool, spend a common UTXO and pay different fees,
\* MaxFeeHandler::handle accepts the one that pays more and not the other,
\* wherever the two stand in the list.
C22_LargerFeeWins ==
    [][MaxFeeReturned =>
          \A a, b \in TxMap(h_last'.txs) :
              Rivals(h_pool, a, b) => LargerFeeWins(a, b)]_vars

\* C22 amended: the same, provided no third candidate that pays at least as
\* much as the larger of the two spends a UTXO that one spends.
C22_LargerFeeWinsUnchallenged ==
    [][MaxFeeReturned =>
          \A a, b \in TxMap(h_last'.txs) :
              Rivals(h_pool, a, b) /\ Unchallenged(h_pool, h_last'.txs, a, b)
                  => LargerFeeWins(a, b)]_vars

\* the batch of the test, smaller fee first: only the larger fee is accepted
C22_Witness ==
    /\ h_last.op = "max_fee_handle"
    /\ h_last.txs = <<TxFee10, TxFee50>>
    /\ h_last.handled = <<TxFee50>>

-----------------------------------------------------------------------------
(* consensus::tx, consensus::node *)

\* Candidate::new
Candidate(tx, sender) == [tx |-> tx, sender |-> sender]

\* (n as f64 * p).ceil() for a probability p given in hundredths
CeilOfShare(n, p) == (n * p + 99) \div 100

F64Min(a, b) == IF a < b THEN a ELSE b

\* `x as usize` of a float: a negative value becomes 0
AsUsize(x) == IF x < 0 THEN 0 ELSE x

\* TrustedNode::new
TrustedNode(p_graph, p_byzantine, num_rounds) ==
    [kind |-> "Trusted", p_graph |-> p_graph, p_byzantine |-> p_byzantine,
     num_rounds |-> num_rounds, followees |-> {}, pending_txs |-> {},
     received_txs |-> [t \in {} |-> {}], consensus_reached |-> {},
     consensus_threshold |-> 0]

\* ByzantineNode::new; behaviour is "Dead", "Selfish" or "Mix"
ByzantineNode(behaviour, num_rounds) ==
    [kind |-> "Byzantine", behaviour |-> behaviour, num_rounds |-> num_rounds,
     followees |-> {}, pending_txs |-> {}, choosen_txs |-> {}]

is_byzantine(node) == node.kind = "Byzantine"

\* the threshold TrustedNode::followees_set computes for N = n
consensus_threshold(n, p_graph, p_byzantine) ==
    LET probable_followers == CeilOfShare(n, p_graph)
        probable_byzantines == CeilOfShare(n, p_byzantine)
    IN AsUsize(F64Min(probable_followers - probable_byzantines, 1))

\* Node::followees_set; followees is the set of indices the node follows
followees_set(node, n, followees) ==
    IF is_byzantine(node) THEN [node EXCEPT !.followees = followees]
    ELSE [node EXCEPT !.followees = followees,
                      !.consensus_threshold =
                          consensus_threshold(n, node.p_graph, node.p_byzantine)]

\* Node::pending_txs_set
pending_txs_set(node, pending_txs) ==
    IF is_byzantine(node)
    THEN [node EXCEPT !.choosen_txs = pending_txs, !.pending_txs = pending_txs]
    ELSE [node EXCEPT !.pending_txs = pending_txs]

\* Node::followers_send
followers_send(node) ==
    IF is_byzantine(node) THEN node.choosen_txs
    ELSE IF node.num_rounds = 0 THEN node.consensus_reached
    ELSE node.pending_txs

\* the loop of TrustedNode::followees_receive over candidates[i..]
RECURSIVE receive_loop(_, _, _)
receive_loop(node, candidates, i) ==
    IF i > Len(candidates) THEN node
    ELSE LET candidate == candidates[i]
             senders == (IF candidate.tx \in DOMAIN node.received_txs
                         THEN node.received_txs[candidate.tx] ELSE {})
                            \cup {candidate.sender}
             received == [t \in DOMAIN node.received_txs \cup {candidate.tx} |->
                             IF t = candidate.tx THEN senders ELSE node.received_txs[t]]
         IN receive_loop(
                [node EXCEPT
                    !.received_txs = received,
                    !.consensus_reached =
                        IF Cardinality(senders) >= node.consensus_threshold
                        THEN @ \cup {candidate.tx} ELSE @,
                    !.pending_txs = @ \cup {candidate.tx}],
                candidates, i + 1)

\* followees_receive of a trusted node that forwards nothing it receives
trusted_receive_without_forwarding(node, candidates) ==
    [receive_loop(node, candidates, 1) EXCEPT
        !.num_rounds = node.num_rounds - 1, !.pending_txs = node.pending_txs]

\* TrustedNode::followees_receive
trusted_receive(node, candidates) ==
    receive_loop([node EXCEPT !.num_rounds = @ - 1], candidates, 1)

\* ByzantineNode::followees_receive; gen_bool is what rng.gen_bool(p) gives
byzantine_receive(node, gen_bool) ==
    LET counted == [node EXCEPT !.num_rounds = @ - 1] IN
    IF node.behaviour = "Dead" THEN [counted EXCEPT !.choosen_txs = {}]
    ELSE IF node.behaviour = "Selfish"
    THEN [counted EXCEPT !.choosen_txs = node.pending_txs]
    ELSE IF gen_bool THEN [counted EXCEPT !.choosen_txs = {}]
    ELSE [counted EXCEPT !.choosen_txs = node.pending_txs]

\* Node::followees_receive
followees_receive(node, candidates, gen_bool) ==
    IF is_byzantine(node) THEN byzantine_receive(node, gen_bool)
    ELSE trusted_receive(node, candidates)

(* consensus/tests/simulation.rs: init, the driver loop and results *)

\* a set of transaction ids as a vector, smallest first
RECURSIVE SetToSeq(_)
SetToSeq(S) ==
    IF S = {} THEN <<>>
    ELSE LET m == CHOOSE x \in S : \A y \in S : x <= y IN <<m>> \o SetToSeq(S \ {m})

\* init: the nodes of a population, with followees and seeds set
init(pop) ==
    LET n == Cardinality(DOMAIN pop.kinds)
        new(i) == IF pop.kinds[i] = "Trusted"
                  THEN TrustedNode(pop.p_graph, pop.p_byzantine, pop.rounds)
                  ELSE ByzantineNode(pop.kinds[i], pop.rounds)
    IN [nodes |-> [i \in DOMAIN pop.kinds |->
                      pending_txs_set(followees_set(new(i), n, pop.followees[i]),
                                      pop.seeds[i])],
        valid_tx_ids |-> DOMAIN pop.kinds,
        followees |-> pop.followees,
        rounds |-> pop.rounds,
        round |-> 0,
        sent |-> [i \in DOMAIN pop.kinds |-> {}],
        passed |-> "running"]

\* the candidates node j is handed in a round: for every node i that j
\* follows, the whitelisted transactions i proposes
RECURSIVE all_proposals(_, _, _)
all_proposals(s, j, i) ==
    IF i \notin DOMAIN s.nodes THEN <<>>
    ELSE LET txs == SetToSeq(followers_send(s.nodes[i]) \cap s.valid_tx_ids)
         IN (IF i \in s.followees[j]
             THEN [k \in 1..Len(txs) |-> Candidate(txs[k], i)]
             ELSE <<>>) \o all_proposals(s, j, i + 1)

\* one iteration of the driver loop of simulation
run_round(s, gen_bool) ==
    [s EXCEPT
        !.nodes = [j \in DOMAIN s.nodes |->
                      IF all_proposals(s, j, 0) = <<>> THEN s.nodes[j]
                      ELSE followees_receive(s.nodes[j], all_proposals(s, j, 0), gen_bool)],
        !.sent = [i \in DOMAIN s.nodes |-> followers_send(s.nodes[i])],
        !.round = @ + 1]

TrustedOf(s) == {i \in DOMAIN s.nodes : ~is_byzantine(s.nodes[i])}

\* results: the distinct sets the trusted nodes return
consensuses(s) == {followers_send(s.nodes[i]) : i \in TrustedOf(s)}

(* The populations the simulation is run on. *)

\* p_graph and p_byzantine, in hundredths
ShareParams == {<<10, 45>>, <<100, 15>>}

Kinds == {"Trusted", "Dead", "Selfish", "Mix"}

\* GossipNodes nodes, the last of any kind and the others trusted; every
\* node follows nobody, the next node, the previous node, or both; every
\* node is seeded with nothing or with the transaction of its own index
SmallPopulations ==
    LET ids == 0..(GossipNodes - 1)
        next(i) == (i + 1) % GossipNodes
        prev(i) == (i + GossipNodes - 1) % GossipNodes
    IN {[kinds |-> [i \in ids |-> IF i = GossipNodes - 1 THEN kind ELSE "Trusted"],
         followees |-> followees,
         seeds |-> [i \in ids |-> IF i \in seeded THEN {i} ELSE {}],
         rounds |-> Rounds, p_graph |-> p[1], p_byzantine |-> p[2]] :
           kind \in Kinds,
           followees \in [ids -> SUBSET ids] \cap
               {f \in [ids -> SUBSET ids] :
                   \A i \in ids : f[i] \subseteq {next(i), prev(i)}},
           seeded \in SUBSET ids,
           p \in ShareParams}

\* a ring of RingNodes trusted nodes, each following the one before it;
\* node 0 alone is seeded
RingPopulations ==
    LET ids == 0..(RingNodes - 1) IN
    {[kinds |-> [i \in ids |-> "Trusted"],
      followees |-> [i \in ids |-> {(i + RingNodes - 1) % RingNodes}],
      seeds |-> [i \in ids |-> IF i = 0 THEN {0} ELSE {}],
      rounds |-> Rounds, p_graph |-> p[1], p_byzantine |-> p[2]] : p \in ShareParams}

Populations == SmallPopulations \cup RingPopulations

DeadOf(pop) == {i \in DOMAIN pop.kinds : pop.kinds[i] = "Dead"}

\* the population in which nobody follows the Dead nodes
WithoutDead(pop) ==
    [pop EXCEPT !.followees = [j \in DOMAIN pop.kinds |-> pop.followees[j] \ DeadOf(pop)]]

\* the consensus crate has no arithmetic that depends on the build profile
InitGossip ==
    /\ InitChain
    /\ overflow_checks
    /\ HandlerIdle
    /\ MsIdle
    /\ SweepIdle
    /\ \E pop \in Populations :
          /\ sim = init(pop)
          /\ twin = init(WithoutDead(pop))

\* one round of the driver loop, on the simulation and on its twin
Round ==
    /\ sim.passed = "running"
    /\ sim.round < sim.rounds
    /\ \E gen_bool \in BOOLEAN :
          /\ sim' = run_round(sim, gen_bool)
          /\ twin' = run_round(twin, gen_bool)
    /\ UNCHANGED <<chain, mempool, height, appended, overflow_checks, panicked, last,
                   h_pool, h_last, h_applied, ms_pool, ms_last, sweep>>

\* results, once the rounds are over
Results ==
    /\ sim.passed = "running"
    /\ sim.round = sim.rounds
    /\ sim' = [sim EXCEPT !.passed = IF Cardinality(consensuses(sim)) = 1
                                     THEN "passed" ELSE "failed"]
    /\ UNCHANGED <<chain, mempool, height, appended, overflow_checks, panicked, last,
                   h_pool, h_last, h_applied, ms_pool, ms_last, twin, sweep>>

NextGossip == Round \/ Results

SpecGossip == InitGossip /\ [][NextGossip]_vars

-----------------------------------------------------------------------------
(* C23: convergence of the trusted nodes *)

\* the nodes the nodes of `from` follow, directly or through nodes of `via`
RECURSIVE Followed(_, _, _)
Followed(s, from, via) ==
    LET more == from \cup UNION {s.followees[i] : i \in from \cap via} IN
    IF more = from THEN from ELSE Followed(s, more, via)

\* every trusted node follows every other one through nodes of `via`
Connected(s, via) ==
    \A a, b \in TrustedOf(s) : b \in Followed(s, s.followees[a] \cup {a}, via)

Max(a, b) == IF a > b THEN a ELSE b

\* C23 as stated: when every trusted node is reachable from every other
\* through followee edges and the rounds are at least the fewest the
\* simulation is run with, the trusted nodes return pairwise equal sets
\* after the driver loop.
C23_Convergence ==
    (/\ sim.passed # "running"
     /\ Connected(sim, DOMAIN sim.nodes)
     /\ sim.rounds >= Rounds)
        => sim.passed = "passed"

\* C23 amended: the same when the reachability is through trusted nodes
\* alone and the rounds are also at least the number of trusted nodes.
C23_ConvergenceAmongTrusted ==
    (/\ sim.passed # "running"
     /\ Connected(sim, TrustedOf(sim))
     /\ sim.rounds >= Max(Rounds, Cardinality(TrustedOf(sim))))
        => sim.passed = "passed"

\* the trusted nodes of a population with a Mix node agree on a set that
\* holds the transaction of the Mix node and one of a trusted node
C23_Witness ==
    /\ sim.passed = "passed"
    /\ Connected(sim, TrustedOf(sim))
    /\ \E i \in DOMAIN sim.nodes \ TrustedOf(sim), j, k \in TrustedOf(sim) :
          /\ sim.nodes[i].behaviour = "Mix"
          /\ {i, j} \subseteq followers_send(sim.nodes[k])
          /\ i \notin sim.nodes[k].followees

-----------------------------------------------------------------------------
(* C24: what a trusted node returns before and after the final round *)

\* C24: once the driver loop has run all its rounds every trusted node
\* returns its consensus_reached set from followers_send; before that it
\* returns pending_txs.
C24_ConsensusAfterFinalRound ==
    \A i \in TrustedOf(sim) :
        followers_send(sim.nodes[i]) =
            IF sim.round = sim.rounds THEN sim.nodes[i].consensus_reached
            ELSE sim.nodes[i].pending_txs

-----------------------------------------------------------------------------
(* C25: the consensus threshold *)

\* max(1, ceil(N * p_graph) - ceil(N * p_byzantine))
ThresholdOfShares(n, p_graph, p_byzantine) ==
    Max(1, CeilOfShare(n, p_graph) - CeilOfShare(n, p_byzantine))

NodeThreshold(s, i) ==
    ThresholdOfShares(Cardinality(DOMAIN s.nodes), s.nodes[i].p_graph, s.nodes[i].p_byzantine)

\* C25: the threshold of every trusted node is
\* max(1, ceil(N * p_graph) - ceil(N * p_byzantine)), and every transaction
\* of consensus_reached was received from at least that many senders.
C25_Threshold ==
    \A i \in TrustedOf(sim) :
        /\ sim.nodes[i].consensus_threshold = NodeThreshold(sim, i)
        /\ \A tx \in sim.nodes[i].consensus_reached :
              Cardinality(sim.nodes[i].received_txs[tx]) >= NodeThreshold(sim, i)

\* the part of C25 about consensus_reached alone
C25_ReceivedFromThreshold ==
    \A i \in TrustedOf(sim) :
        \A tx \in sim.nodes[i].consensus_reached :
            Cardinality(sim.nodes[i].received_txs[tx]) >= NodeThreshold(sim, i)

-----------------------------------------------------------------------------
(* C26: what a Dead node sends *)

DeadNodes(s) ==
    {i \in DOMAIN s.nodes : is_byzantine(s.nodes[i]) /\ s.nodes[i].behaviour = "Dead"}

\* C26: in every round followers_send of a Dead node returned the empty set.
C26_DeadSendsNothing == \A i \in DeadNodes(sim) : sim.sent[i] = {}

-----------------------------------------------------------------------------
(* C27: a Dead node does not influence the others *)

KnownTo(node) ==
    node.pending_txs \cup (IF is_byzantine(node) THEN {} ELSE node.consensus_reached)

\* C27: at every round, no node other than the Dead node holds in
\* pending_txs or consensus_reached a transaction that it does not hold in
\* the run of the same population without the Dead node.
C27_DeadNonInfluence ==
    \A i \in DOMAIN sim.nodes \ DeadNodes(sim) :
        KnownTo(sim.nodes[i]) \subseteq KnownTo(twin.nodes[i])

\* the same when the Dead node was seeded with nothing
C27_UnseededDeadNonInfluence ==
    (\A d \in DeadNodes(sim) : sim.nodes[d].pending_txs = {}) => C27_DeadNonInfluence

-----------------------------------------------------------------------------
(* C28: the order of the candidates of a batch without conflicts *)

HandleReturned == h_last'.op = "handle" /\ h_last'.result = "returned"

SetOf(txs) == {txs[i] : i \in 1..Len(txs)}

\* C28: when no two candidates of a batch spend the same UTXO, Handler::handle
\* accepts the same set of transactions and leaves the same pool for every
\* arrangement of the batch.
C28_OrderIndependent ==
    [][HandleReturned /\ ~Conflict(h_last'.txs) =>
          \A txs \in Arrangements(h_last'.txs) :
              LET r == handle(h_pool, txs, overflow_checks) IN
              /\ ~r.panic
              /\ r.pool = h_pool'
              /\ SetOf(r.handled) = SetOf(h_last'.handled)]_vars

\* a chain of three dependent transactions, handed over last first, was
\* accepted in full
C28_Witness ==
    /\ h_last.op = "handle"
    /\ h_last.txs = <<TxFeeGrand, TxFeeChild, TxFee10>>
    /\ SetOf(h_last.handled) = {TxFee10, TxFeeChild, TxFeeGrand}

-----------------------------------------------------------------------------
(* C29: candidates of a batch that spend the same UTXO *)

SpentBy(tx) == {input_to_utxo(tx.inputs[i]) : i \in 1..Len(tx.inputs)}

\* the positions of the candidates that are valid against p and spend utxo
RivalsFor(p, txs, utxo) ==
    {i \in 1..Len(txs) :
        utxo \in SpentBy(txs[i]) /\ is_tx_valid(p, txs[i], overflow_checks) = "true"}

First(positions) == CHOOSE i \in positions : \A j \in positions : i <= j

\* of the candidates at these positions the first one alone was accepted,
\* and nothing that spends an output of the others
FirstWins(txs, positions) ==
    LET first == txs[First(positions)]
        losers == {txs[i] : i \in positions} \ {first}
    IN /\ Cardinality({i \in 1..Len(h_last'.handled) : h_last'.handled[i] = first}) = 1
       /\ \A tx \in losers : ~Handled(tx)
       /\ \A i \in 1..Len(h_last'.handled) :
             \A u \in SpentBy(h_last'.handled[i]) : \A tx \in losers : u.tx_hash # tx.hash

\* no candidate listed before position i spends a UTXO that candidate i spends
NotPreempted(txs, i) ==
    \A j \in 1..(i - 1) : txs[j] = txs[i] \/ SpentBy(txs[j]) \cap SpentBy(txs[i]) = {}

-----------------------------------------------------------------------------
(* C30: nothing acceptable is left over *)

\* C30: when Handler::handle has returned, no candidate that it did not
\* accept is valid against the pool it leaves.
C30_Maximal ==
    h_last.op = "handle" /\ h_last.result = "returned" =>
        \A tx \in SetOf(h_last.txs) \ SetOf(h_last.handled) :
            is_tx_valid(h_pool, tx, overflow_checks) # "true"

\* the same of the multisig Handler
C30_MsMaximal ==
    ms_last # <<>> /\ ms_last.op = "handle" /\ ms_last.result = "returned" =>
        \A tx \in SetOf(ms_last.txs) \ SetOf(ms_last.handled) :
            ms_is_tx_valid(ms_pool, tx, overflow_checks) # "true"

\* a batch of which one candidate was accepted and two were not
C30_Witness ==
    /\ h_last.op = "handle"
    /\ h_last.result = "returned"
    /\ Len(h_last.txs) = 3
    /\ Cardinality(SetOf(h_last.txs) \ SetOf(h_last.handled)) = 2
    /\ TxFeeGreater \in SetOf(h_last.txs)

-----------------------------------------------------------------------------
(* One handler handed batch after batch, as the test multiple_rounds does. *)

RoundTxs == {TxFee50, TxFee10, TxFeeChild, TxFeeGrand, TxFeeGreater}

\* every list of up to MaxRoundBatch of them, the empty one included
RoundTxLists == UNION {[1..n -> RoundTxs] : n \in 0..MaxRoundBatch}

InitRounds ==
    /\ InitChain
    /\ overflow_checks
    /\ MsIdle
    /\ SimIdle
    /\ SweepIdle
    /\ h_pool = PoolOf(TxFeeRoot, 1)
    /\ h_last = HCall("new", <<>>, "true", <<>>)
    /\ h_applied = {}

NextRounds ==
    \/ \E txs \in RoundTxLists : Handle(txs)
    \/ \E txs \in RoundTxLists : MaxFeeHandle(txs)

SpecRounds == InitRounds /\ [][NextRounds]_vars

-----------------------------------------------------------------------------
(* C31: what a call of handle does to the pool *)

HandlerReturned ==
    h_last'.op \in {"handle", "max_fee_handle"} /\ h_last'.result = "returned"

\* the UTXOs the inputs of the transactions of A refer to
InputsOf(A) == UNION {SpentBy(A[k]) : k \in 1..Len(A)}

\* the outputs of the transactions of A that no later transaction of A spends
UnspentOutputs(A) ==
    UNION {{UTXO(A[k].hash, i - 1) : i \in 1..Len(A[k].outputs)}
               \ UNION {SpentBy(A[j]) : j \in (k + 1)..Len(A)} : k \in 1..Len(A)}

OutputAt(A, u) ==
    LET k == CHOOSE k \in 1..Len(A) : A[k].hash = u.tx_hash
    IN A[k].outputs[u.output_idx + 1]

\* C31: when handle returns the list A, the pool is the pool before the call
\* without the UTXOs the inputs of A refer to, and with one UTXO for every
\* output of a transaction of A that no later transaction of A spends; the
\* candidates that are not in A change nothing, and the next call starts
\* from that pool.
C31_ExactPoolEffect ==
    [][HandlerReturned =>
          LET A == h_last'.handled
              made == UnspentOutputs(A)
              kept == (DOMAIN h_pool \ InputsOf(A)) \ made
          IN /\ DOMAIN h_pool' = kept \cup made
             /\ \A u \in made : h_pool'[u] = OutputAt(A, u)
             /\ \A u \in kept : h_pool'[u] = h_pool[u]]_vars

\* a later call on a handler that had accepted TxFee10: the batch spends an
\* output that call left, and an output of the batch itself
C31_Witness ==
    /\ h_last.op = "handle"
    /\ h_last.txs = <<TxFeeGrand, TxFeeChild>>
    /\ h_last.handled = <<TxFeeChild, TxFeeGrand>>
    /\ TxFee10 \in h_applied
    /\ ~contains(h_pool, UTXO(TxFee10.hash, 1))
    /\ ~contains(h_pool, UTXO(TxFeeChild.hash, 0))
    /\ contains(h_pool, UTXO(TxFeeGrand.hash, 0))

-----------------------------------------------------------------------------
(* C32: the loop of handle comes to an end *)

\* every wave but the first is handed fewer candidates than the wave
\* before it, and there are at most as many waves as candidates, plus one
WavesShrink(p, to_handle) ==
    LET w == handle_waves(p, to_handle, overflow_checks) IN
    /\ \A k \in 1..(Len(w) - 1) : Len(w[k + 1]) < Len(w[k])
    /\ Len(w) <= Len(to_handle) + 1

\* C32: Handler::handle and MaxFeeHandler::handle return for every batch,
\* the list of candidates still deferred gets strictly shorter from one
\* wave to the next, and the waves are no more than the candidates plus one.
C32_WavesTerminate ==
    [][/\ h_last'.op = "handle" =>
             h_last'.result = "returned" /\ WavesShrink(h_pool, h_last'.txs)
       /\ h_last'.op = "max_fee_handle" =>
             /\ h_last'.result = "returned"
             /\ \A to_handle \in to_handle_orders(h_pool, h_last'.txs) :
                    WavesShrink(h_pool, to_handle)]_vars

\* the same of the loop of the multisig Handler, which ends by returning or
\* by the panic of an overflowing sum
C32_MsWavesTerminate ==
    [][ms_last'.op = "handle" =>
          LET w == ms_handle_waves(ms_pool, ms_last'.txs, overflow_checks) IN
          /\ \A k \in 1..(Len(w) - 1) : Len(w[k + 1]) < Len(w[k])
          /\ Len(w) <= Len(ms_last'.txs) + 1]_vars

\* a batch listed in reverse order of dependency took three waves
C32_Witness ==
    /\ h_last.op = "handle"
    /\ h_last.txs = <<TxFeeGrand, TxFeeChild, TxFee10>>
    /\ h_last.handled = <<TxFee10, TxFeeChild, TxFeeGrand>>
    /\ Len(handle_waves(PoolOf(TxFeeRoot, 1), h_last.txs, overflow_checks)) = 3

-----------------------------------------------------------------------------
(* C33: validating an accepted transaction again *)

\* the pools a handler goes through while it applies the list A to p one
\* after another: the pool before A[1], ..., before A[Len(A)], after it
RECURSIVE PoolsAlong(_, _, _)
PoolsAlong(p, A, k) ==
    IF k > Len(A) THEN <<p>>
    ELSE <<p>> \o PoolsAlong(apply_tx(p, A[k]), A, k + 1)

RECURSIVE MsPoolsAlong(_, _, _)
MsPoolsAlong(p, A, k) ==
    IF k > Len(A) THEN <<p>>
    ELSE <<p>> \o MsPoolsAlong(ms_apply_tx(p, A[k]), A, k + 1)

\* the call of the single-signature handler that has just ended accepted
\* every transaction on a pool it is valid against, and none of them is valid
\* against a pool the call went through afterwards
Revalidation ==
    h_last' # <<>> /\ h_last'.op \in {"handle", "max_fee_handle"} =>
        LET A == h_last'.handled
            pools == PoolsAlong(h_pool, A, 1)
        IN /\ pools[Len(pools)] = h_pool'
           /\ \A k \in 1..Len(A) :
                 /\ is_tx_valid(pools[k], A[k], overflow_checks) = "true"
                 /\ \A j \in (k + 1)..Len(pools) :
                       is_tx_valid(pools[j], A[k], overflow_checks) = "false"

\* the same of the multisig handler
MsRevalidation ==
    ms_last' # <<>> /\ ms_last'.op = "handle" =>
        LET A == ms_last'.handled
            pools == MsPoolsAlong(ms_pool, A, 1)
        IN /\ pools[Len(pools)] = ms_pool'
           /\ \A k \in 1..Len(A) :
                 /\ ms_is_tx_valid(pools[k], A[k], overflow_checks) = "true"
                 /\ \A j \in (k + 1)..Len(pools) :
                       ms_is_tx_valid(pools[j], A[k], overflow_checks) = "false"

\* no transaction the single-signature handler has ever accepted is valid
\* against its pool
AppliedStayInvalid ==
    \A tx \in h_applied : is_tx_valid(h_pool, tx, overflow_checks) = "false"

\* C33: a transaction that handle accepts is valid against the pool as it
\* was just before the transaction was applied, and is not valid against the
\* pool at any time after, in the single-signature and in the multisig
\* handler.
C33_Revalidation ==
    /\ []AppliedStayInvalid
    /\ [][Revalidation]_vars
    /\ [][MsRevalidation]_vars

\* the part of C33 about the single-signature handlers
C33_FiitcoinRevalidation == []AppliedStayInvalid /\ [][Revalidation]_vars

-----------------------------------------------------------------------------
(* C34: what a built block may spend *)

\* the hashes of the transactions that created outputs on the branch that
\* ends in node i: the coinbase of genesis, which setup_handler puts into the
\* genesis pool, and the transactions of the blocks of the branch
CreatorsOnBranch(ch, i) ==
    {Genesis.coinbase.hash}
        \cup UNION {{ch[n].block.txs[k].hash : k \in 1..Len(ch[n].block.txs)} :
                        n \in {BranchOf(ch, i)[j] : j \in 1..Len(BranchOf(ch, i))}}

\* C34: a block that create_block or create_fork builds on parent p holds
\* pending transactions only; every input of each of them is in p's
\* post-state pool or is an output of an earlier transaction of the block, was
\* created on the branch of p or in the block, and is spent by no ancestor of
\* the block; what the ancestors left unspent and the block does not spend is
\* in the pool of the new block, and a pending transaction that is valid
\* against p's pool and competes with no other pending one is in the block.
C34_BranchIsolation ==
    [][BuiltBlockFedBack =>
          LET b == last'.block
              parent == at_block_hash(chain, b.prev)
              p == chain[parent].pool
              pools == PoolsAlong(p, b.txs, 1)
              spent == BranchSpends(chain, parent)
              built == (utxo_pool_at_max_height(chain))'
          IN /\ parent # 0
             /\ \A k \in 1..Len(b.txs) :
                   /\ b.txs[k] \in mempool
                   /\ \A u \in SpentBy(b.txs[k]) :
                         /\ contains(p, u) \/ u \in CreatedIn(SubSeq(b.txs, 1, k - 1))
                         /\ contains(pools[k], u)
                         /\ \A a \in 1..Len(spent) : spent[a] # u
                         /\ u.tx_hash \in CreatorsOnBranch(chain, parent)
                                             \cup {b.txs[j].hash : j \in 1..(k - 1)}
             /\ \A u \in DOMAIN p \ InputsOf(b.txs) : contains(built, u) /\ built[u] = p[u]
             /\ \A tx \in mempool :
                   /\ is_tx_valid(p, tx, overflow_checks) = "true"
                   /\ \A other \in mempool \ {tx} : SpentBy(other) \cap SpentBy(tx) = {}
                   => \E k \in 1..Len(b.txs) : b.txs[k] = tx]_vars

\* TxA was accepted in a block on genesis; a fork built on genesis while TxC,
\* which spends an output of TxA, was pending holds no transaction
C34_Witness ==
    /\ last.op = "create_fork"
    /\ last.ok
    /\ last.block.prev = Genesis.hash
    /\ last.block.txs = <<>>
    /\ TxC \in mempool
    /\ \E i \in 1..Len(chain) : chain[i].block.txs = <<TxA>> /\ chain[i].block.prev = Genesis.hash

\* the genesis coinbase was spent two blocks after genesis
C34_OldUtxoSpent ==
    /\ last.op = "create_block"
    /\ last.ok
    /\ last.block.txs = <<TxA>>
    /\ Len(BranchOf(chain, Len(chain))) = 3

-----------------------------------------------------------------------------
(* C35: a rejected block *)

\* the step is a call of add_block that returned false
BlockRejected == AddBlockCalled /\ ~last'.ok /\ ~panicked'

\* C35: when add_block returns false, for a parent that is not retained or
\* for a transaction that is not applicable, the retained nodes and their
\* order, their blocks and post-state pools, the tip and the mempool are
\* what they were before the call.
C35_RejectionHasNoEffect ==
    [][BlockRejected =>
          /\ chain' = chain
          /\ height' = height
          /\ (block_at_max_height(chain))' = block_at_max_height(chain)
          /\ (utxo_pool_at_max_height(chain))' = utxo_pool_at_max_height(chain)
          /\ mempool' = mempool]_vars

\* a block on a retained parent was rejected while its transactions, two
\* spenders of the genesis coinbase, were pending: they still are
C35_Witness ==
    /\ last.op = "process_block"
    /\ ~last.ok
    /\ ~panicked
    /\ last.block.prev \in RetainedHashes(chain)
    /\ last.block.txs = <<TxA, TxB>>
    /\ mempool = {TxA, TxB}

\* a block on a parent that is not retained was rejected
C35_UnknownParent ==
    /\ last.op = "process_block"
    /\ ~last.ok
    /\ last.block.prev = UnknownDigest
    /\ last.block.txs = <<TxA>>
    /\ TxA \in mempool

-----------------------------------------------------------------------------
(* C36: retained nodes do not change *)

\* every node retained before and after the step has the block and the pool
\* it had: the buffer is the same, or it took one node at its back
NodesUntouched ==
    \/ chain' = chain
    \/ \E node \in {chain'[Len(chain')]} : chain' = push(chain, node)

\* the pool of every retained node whose parent is retained is what the
\* transactions of its block make of the parent's stored pool
PoolsFromParents ==
    \A i \in 1..Len(chain) :
        Parent(chain, i) # 0 =>
            LET r == handle(chain[Parent(chain, i)].pool, chain[i].block.txs, overflow_checks)
            IN ~r.panic /\ chain[i].pool = r.pool

\* C36: no call changes the block or the post-state pool of a node that is
\* already retained; the transactions of a block are applied to a clone of
\* the parent's pool, which leaves the stored pool as it was, so that every
\* child of a parent is built from the same pre-state.
C36_NodesImmutable == []PoolsFromParents /\ [][NodesUntouched]_vars

\* two children of genesis are retained, each spending the genesis coinbase
C36_Witness ==
    \E i, j \in 1..Len(chain) :
        /\ chain[i].block.prev = Genesis.hash /\ chain[i].block.txs = <<TxA>>
        /\ chain[j].block.prev = Genesis.hash /\ chain[j].block.txs = <<TxB>>
        /\ contains(chain[1].pool, UTXO(GenesisTx.hash, 0))
        /\ contains(chain[i].pool, UTXO(TxA.hash, 0))
        /\ contains(chain[j].pool, UTXO(TxB.hash, 0))

-----------------------------------------------------------------------------
(* C37: how transactions enter and leave the mempool *)

\* C37: process_tx puts its transaction into the mempool without validating
\* it; when add_block accepts a block, the transactions of the block are no
\* longer pending and every other pending transaction still is; a pending
\* transaction leaves the mempool in no other way.
C37_MempoolLifecycle ==
    [][/\ last'.op = "process_tx" =>
             \E tx \in ClientTxs :
                 /\ mempool' = mempool \cup {tx}
                 /\ \A t \in mempool' : t.hash = tx.hash => t = tx
       /\ BlockAccepted =>
             mempool' = {t \in mempool :
                            \A k \in 1..Len(last'.block.txs) : last'.block.txs[k].hash # t.hash}
       /\ mempool \ mempool' # {} =>
             /\ BlockAccepted
             /\ mempool \ mempool' \subseteq SetOf(last'.block.txs)]_vars

\* a transaction with a bad signature and a valid one were pending; the
\* block built from them holds the valid one and was accepted: the other is
\* still pending
C37_Witness ==
    /\ last.op = "create_block"
    /\ last.ok
    /\ last.block.txs = <<TxA>>
    /\ mempool = {TxBadSig}

-----------------------------------------------------------------------------
(* consensus/tests/simulation.rs: the test simulations.  The main thread    *)
(* spawns one task per parameter tuple, each with a clone of the Sender,    *)
(* and then receives from the channel until it is disconnected.  What a     *)
(* run of simulation returns depends on its random seed: it passes or not.  *)

\* a summary: the result of run number attempt of the trial
Summary(trial, attempt) == [trial |-> trial, attempt |-> attempt]

Task(pc, tries, runs) == [pc |-> pc, tries |-> tries, runs |-> runs]

InitSweep ==
    /\ InitChain
    /\ overflow_checks
    /\ HandlerIdle
    /\ MsIdle
    /\ SimIdle
    /\ sweep = [main |-> "spawn", spawned |-> 0,
                task |-> [i \in 1..Trials |-> Task("unspawned", 0, 0)],
                channel |-> <<>>, senders |-> 1, file |-> <<>>]

Idle == <<chain, mempool, height, appended, overflow_checks, panicked, last,
          h_pool, h_last, h_applied, ms_pool, ms_last, sim, twin>>

\* one turn of the loop over the permutations: tx.clone(), rayon::spawn
Spawn ==
    /\ sweep.main = "spawn"
    /\ sweep.spawned < Trials
    /\ sweep' = [sweep EXCEPT !.spawned = @ + 1,
                              !.senders = @ + 1,
                              !.task[sweep.spawned + 1] = Task("simulate", 0, 0)]
    /\ UNCHANGED Idle

\* the loop is over: File::create
CreateFile ==
    /\ sweep.main = "spawn"
    /\ sweep.spawned = Trials
    /\ sweep' = [sweep EXCEPT !.main = "collect"]
    /\ UNCHANGED Idle

\* task i runs simulation, and tests tries < 3 && !passed
Simulate(i) ==
    /\ sweep.task[i].pc = "simulate"
    /\ \E passed \in BOOLEAN :
          sweep' = [sweep EXCEPT !.task[i] =
                       IF sweep.task[i].tries < Retries /\ ~passed
                       THEN Task("simulate", @.tries + 1, @.runs + 1)
                       ELSE Task("send", @.tries, @.runs + 1)]
    /\ UNCHANGED Idle

\* tx.send(result) of task i
Send(i) ==
    /\ sweep.task[i].pc = "send"
    /\ sweep' = [sweep EXCEPT !.channel = Append(@, Summary(i, sweep.task[i].runs)),
                              !.task[i].pc = "sent"]
    /\ UNCHANGED Idle

\* the closure of task i returns, which drops its clone of the Sender
Finish(i) ==
    /\ sweep.task[i].pc = "sent"
    /\ sweep' = [sweep EXCEPT !.senders = @ - 1, !.task[i].pc = "finished"]
    /\ UNCHANGED Idle

\* for received in rx: the next summary is written to the file; the loop
\* ends when the channel is empty and no Sender is left; it waits otherwise
Receive ==
    /\ sweep.main = "collect"
    /\ sweep.channel # <<>> \/ sweep.senders = 0
    /\ sweep' = IF sweep.channel # <<>>
                THEN [sweep EXCEPT !.file = Append(@, Head(sweep.channel)),
                                   !.channel = Tail(@)]
                ELSE [sweep EXCEPT !.main = "done"]
    /\ UNCHANGED Idle

NextSweep ==
    \/ Spawn
    \/ CreateFile
    \/ \E i \in 1..Trials : Simulate(i)
    \/ \E i \in 1..Trials : Send(i)
    \/ \E i \in 1..Trials : Finish(i)
    \/ Receive

\* every thread that can take a step takes one in the end
SpecSweep == InitSweep /\ [][NextSweep]_vars /\ WF_vars(NextSweep)

-----------------------------------------------------------------------------
(* C38: the sweep comes to an end *)

\* the summaries of trial i in the sequence s
Of(s, i) == {k \in 1..Len(s) : s[k].trial = i}

\* no trial has sent more than one summary, and the one it sent is the
\* result of its last run, which is at most the first run and three retries
OneSummaryPerTrial ==
    \A i \in 1..Trials :
        /\ Cardinality(Of(sweep.channel, i)) + Cardinality(Of(sweep.file, i)) <= 1
        /\ \A k \in Of(sweep.channel \o sweep.file, i) :
              /\ sweep.task[i].pc \in {"sent", "finished"}
              /\ (sweep.channel \o sweep.file)[k].attempt = sweep.task[i].runs
              /\ sweep.task[i].runs <= Retries + 1

\* the collector has received one summary of every trial
AllReceived == \A i \in 1..Trials : Cardinality(Of(sweep.file, i)) = 1

\* C38: every spawned trial sends exactly one summary, that of its last
\* attempt after at most three retries; the collector receives exactly one
\* summary for every parameter tuple, and its receive loop ends after the
\* last of them.
C38_SweepTerminates ==
    /\ []OneSummaryPerTrial
    /\ <>(AllReceived /\ sweep.main = "done")

\* the part of C38 that does not need the receive loop to end
C38_EverySummaryReceived == []OneSummaryPerTrial /\ <>[]AllReceived

\* every task has returned, every summary is in the file, and the collector
\* waits for the Sender the main thread still holds
C38_CollectorBlocked ==
    /\ \A i \in 1..Trials : sweep.task[i].pc = "finished"
    /\ AllReceived
    /\ sweep.channel = <<>>
    /\ sweep.main = "collect"
    /\ sweep.senders = 1
    /\ ~ENABLED NextSweep

-----------------------------------------------------------------------------
(* The handler driven by two miners and no pending transaction, as in the   *)
(* test linear_blocks, with forks.                                          *)

TwoMiners == {"alice", "bob"}

NextMiners ==
    \/ \E address \in TwoMiners, txs \in tx_pool_txs(mempool) :
          Open(MaxForkBlocks) /\ CreateBlock(address, txs)
    \/ \E parent_hash \in RetainedHashes(chain), address \in TwoMiners,
          txs \in tx_pool_txs(mempool) :
          Open(MaxForkBlocks) /\ CreateFork(parent_hash, address, txs)

SpecMiners == Init /\ [][NextMiners]_vars

-----------------------------------------------------------------------------
(* C39: block hashes and retained nodes *)

\* C39: no two retained nodes have the same block hash, so that
\* at_block_hash and create_fork designate at most one node; two blocks on
\* the same parent with the same transactions and different coinbase
\* recipients, which have one hash, are never both retained.
C39_UniqueHashes ==
    \A i, j \in 1..Len(chain) : chain[i].block.hash = chain[j].block.hash => i = j

\* two retained nodes have the same hash and pay the coinbase to different
\* recipients
C39_TwoRecipientsOneHash ==
    \E i, j \in 1..Len(chain) :
        /\ chain[i].block.hash = chain[j].block.hash
        /\ chain[i].block.coinbase # chain[j].block.coinbase
        /\ chain[i].block.prev = chain[j].block.prev
        /\ chain[i].block.txs = chain[j].block.txs

\* what at_block_hash answers depends on the hash alone all the same: nodes
\* with one hash have one parent, one transaction list and one pool
C39_TwinsAgree ==
    \A i, j \in 1..Len(chain) :
        chain[i].block.hash = chain[j].block.hash =>
            /\ chain[i].block.prev = chain[j].block.prev
            /\ chain[i].block.txs = chain[j].block.txs
            /\ chain[i].pool = chain[j].pool

-----------------------------------------------------------------------------
(* C40: the value held in the pools *)

\* the mathematical sum of the values of the UTXOs of pool p
RECURSIVE TotalOver(_, _)
TotalOver(p, S) ==
    IF S = {} THEN WideSum(<<>>)
    ELSE LET u == CHOOSE x \in S : TRUE IN WideAdd(TotalOver(p, S \ {u}), p[u].value)

TotalValue(p) == TotalOver(p, DOMAIN p)

\* n coinbases
Coinbases(n) == WideSum([k \in 1..n |-> U32(COINBASE)])

\* C40: the post-state pool of an accepted block holds at most the value the
\* post-state pool of its parent holds, plus COINBASE; the pool of a block
\* at height h holds at most 625 * h.
C40_BoundedSupply ==
    \A i \in 1..Len(chain) :
        /\ Parent(chain, i) # 0 =>
              WideLeq(TotalValue(chain[i].pool),
                      WideAdd(TotalValue(chain[Parent(chain, i)].pool), U32(COINBASE)))
        /\ WideLeq(TotalValue(chain[i].pool), Coinbases(height[i]))

\* the same in a build with overflow checks
C40_BoundedSupplyWhenChecked == overflow_checks => C40_BoundedSupply

\* a retained block whose pool holds more than its parent's pool and a
\* coinbase: the block of TxWrap on genesis
C40_ValueCreated ==
    \E i \in 2..Len(chain) :
        /\ chain[i].block.txs = <<TxWrap>>
        /\ ~overflow_checks
        /\ TotalValue(chain[i].pool) = <<1, 0, 625>>

====
